---- MODULE Spec2Model ----
(***************************************************************************)
(* The JSON API of the catalog site: the JWT middleware (auth, admin), the *)
(* user and auth routes, the category and product routes and the paginated *)
(* list routes.  A request is a sequence of datastore operations separated *)
(* by awaits; each action below is one datastore operation together with   *)
(* the synchronous code that follows it up to the next await, so requests  *)
(* interleave exactly at the awaits of the handlers.  The datastore is the *)
(* ORM's contract (findByPk, findOne, count, create, update, destroy,      *)
(* findAndCountAll) over the tables the models declare.                    *)
(***************************************************************************)
EXTENDS Integers, Sequences, FiniteSets, TLC

\* ------------------------------------------------------------------ bounds
MaxUserId == 3        \* user ids the datastore hands out
MaxStarted == 3       \* user/auth requests started in one behaviour
MaxProbes == 2        \* requests started in one behaviour when clients send any header
MaxSlot == 2          \* requests in flight at once
MaxCatalogStarted == 3  \* catalog requests started in one behaviour
MaxNewCategories == 1 \* categories created in one behaviour
MaxUpload == 2        \* files in one upload
MaxProducts == 4      \* products in the table a list route reads
MaxMessages == 3      \* contact messages in the table a list route reads
MaxDigit == 3         \* the largest digit of a page or limit parameter
MaxUpdates == 2       \* update requests started in one behaviour
MaxContact == 2       \* contact messages submitted in one behaviour
MaxMessageRequests == 3  \* requests to /api/contact/messages/:id in one behaviour
MaxServerRequests == 2   \* requests to the whole server in one behaviour

VARIABLES
  users,        \* the users table: a set of rows
  nextUserId,   \* the users table's auto-increment
  tokens,       \* the claims of every token signed so far
  req,          \* the user/auth requests in flight, by slot
  started,      \* how many user/auth requests have been started
  categories,   \* the categories table
  products,     \* the products table
  images,       \* the product_images table
  files,        \* the files stored under public/
  nextCategoryId, nextImageId,   \* the tables' auto-increments
  nextFile,     \* the next name multer generates
  creq,         \* the catalog requests in flight, by slot
  cstarted,     \* how many catalog requests have been started
  lprods,       \* the products a list route reads
  lmsgs,        \* the contact messages a list route reads
  lq,           \* the list request received
  lresp,        \* and its response
  scan,         \* a client's walk through the pages of one product listing
  messages,     \* the contact_messages table
  nextMessageId,  \* its auto-increment
  contact,      \* the last POST /api/contact and its response
  posted,       \* how many POST /api/contact requests have been made
  mreq,         \* the request to /api/contact/messages/:id in flight or last answered
  mstarted      \* how many such requests have been started

userVars == <<users, nextUserId, tokens, req, started>>
catalogVars == <<categories, products, images, files, nextCategoryId, nextImageId,
                 nextFile, creq, cstarted>>
listVars == <<lprods, lmsgs, lq, lresp, scan>>

contactVars == <<messages, nextMessageId, contact, posted, mreq, mstarted>>

vars == <<userVars, catalogVars, listVars, contactVars>>

Slots == 1..MaxSlot

\* ------------------------------------------------------------- user rows
NoUser == [id |-> 0, username |-> "", email |-> "", password |-> "", is_admin |-> FALSE]
NoClaims == [id |-> 0, username |-> "", email |-> "", is_admin |-> FALSE]

\* The User model's beforeCreate/beforeUpdate hook stores a hash of the password.
Hash(pw) == IF pw = "" THEN "" ELSE "hash:" \o pw

\* user.comparePassword(candidate)
ComparePassword(u, candidate) == candidate # "" /\ u.password = Hash(candidate)

\* The payload login and register sign, and the user object they return.
Payload(u) == [id |-> u.id, username |-> u.username, email |-> u.email, is_admin |-> u.is_admin]

\* const { password: _, ...userWithoutPassword } = user.toJSON()
WithoutPassword(u) == [id |-> u.id, username |-> u.username, email |-> u.email, is_admin |-> u.is_admin]

\* The seeded administrator.
SeedAdmin == [id |-> 1, username |-> "admin", email |-> "admin@example.com",
              password |-> Hash("admin123"), is_admin |-> TRUE]

\* A user who is no administrator, as POST /api/users creates it.
Bob == [id |-> 2, username |-> "bob", email |-> "bob@example.com",
        password |-> Hash("secret1"), is_admin |-> FALSE]

\* User.findByPk(id), User.findOne({where: {username}}), User.findOne({where: {email}})
FindByPk(id) == IF \E u \in users : u.id = id THEN CHOOSE u \in users : u.id = id ELSE NoUser
FindByUsername(name) == IF \E u \in users : u.username = name
                        THEN CHOOSE u \in users : u.username = name ELSE NoUser
FindByEmail(mail) == IF \E u \in users : u.email = mail
                     THEN CHOOSE u \in users : u.email = mail ELSE NoUser

\* User.count({where: {is_admin: true}})
AdminCount == Cardinality({u \in users : u.is_admin})


\* ------------------------------------------------------------- middleware
\* A token: who signed it, whether its exp has passed, and the payload's user.
\* sig = "" is the empty string (no token after the header is stripped).
SignedToken(c) == [sig |-> "secret", expired |-> FALSE, user |-> c]
ExpiredToken(c) == [sig |-> "secret", expired |-> TRUE, user |-> c]
ForgedToken(c) == [sig |-> "other", expired |-> FALSE, user |-> c]
EmptyToken == [sig |-> "", expired |-> FALSE, user |-> NoClaims]

\* The Authorization header: absent, or a value with or without the "Bearer " prefix.
NoHeader == [present |-> FALSE, bearer |-> FALSE, token |-> EmptyToken]
Bearer(t) == [present |-> TRUE, bearer |-> TRUE, token |-> t]
Raw(t) == [present |-> TRUE, bearer |-> FALSE, token |-> t]

\* req.header('Authorization')?.replace('Bearer ', ''): undefined without the
\* header, otherwise the value with the prefix (when it is there) removed.
HeaderToken(h) == [defined |-> h.present, token |-> h.token]

\* jwt.verify(token, process.env.JWT_SECRET): throws on a bad signature or a passed exp.
JwtVerify(t) == t.sig = "secret" /\ ~t.expired

Passed == [passed |-> TRUE, status |-> 0, msg |-> "", user |-> NoClaims, nexts |-> 0]

\* auth with jwt.decode in place of jwt.verify: any non-empty token passes.
AuthDecodeOnly(h) ==
  LET t == HeaderToken(h) IN
  IF ~t.defined \/ t.token.sig = ""
    THEN [passed |-> FALSE, status |-> 401, msg |-> "No token, authorization denied",
          user |-> NoClaims, nexts |-> 0]
    ELSE [passed |-> TRUE, status |-> 0, msg |-> "", user |-> t.token.user, nexts |-> 1]

\* auth(req, res, next)
Auth(h) ==
  LET t == HeaderToken(h) IN
  IF ~t.defined \/ t.token.sig = ""
    THEN [passed |-> FALSE, status |-> 401, msg |-> "No token, authorization denied",
          user |-> NoClaims, nexts |-> 0]
    ELSE IF JwtVerify(t.token)
      THEN [passed |-> TRUE, status |-> 0, msg |-> "", user |-> t.token.user, nexts |-> 1]
      ELSE [passed |-> FALSE, status |-> 401, msg |-> "Token is not valid",
            user |-> NoClaims, nexts |-> 0]

\* admin that lets every authenticated user through.
AdminAnyUser(user) ==
  [passed |-> TRUE, status |-> 0, msg |-> "", user |-> user, nexts |-> 1]

\* admin(req, res, next)
Admin(user) ==
  IF ~user.is_admin
    THEN [passed |-> FALSE, status |-> 403,
          msg |-> "Access denied. Admin privileges required.", user |-> user, nexts |-> 0]
    ELSE [passed |-> TRUE, status |-> 0, msg |-> "", user |-> user, nexts |-> 1]

\* The middleware each route is registered with, in order.
Chain(route) ==
  CASE route = "GET /api/users" -> <<"auth", "admin">>
    [] route = "GET /api/users/:id" -> <<"auth", "admin">>
    [] route = "POST /api/users" -> <<"auth", "admin">>
    [] route = "PUT /api/users/:id" -> <<"auth", "admin">>
    [] route = "DELETE /api/users/:id" -> <<"auth", "admin">>
    [] route = "PUT /api/users/:id/change-password" -> <<"auth">>
    [] route = "POST /api/auth/login" -> <<>>
    [] route = "POST /api/auth/register" -> <<>>
    [] route = "GET /api/auth/me" -> <<>>
    [] route = "POST /api/categories" -> <<"auth", "admin", "upload">>
    [] route = "PUT /api/categories/:id" -> <<"auth", "admin", "upload">>
    [] route = "DELETE /api/categories/:id" -> <<"auth", "admin">>
    [] route = "POST /api/products" -> <<"auth", "admin", "upload">>
    [] route = "PUT /api/products/:id" -> <<"auth", "admin", "upload">>
    [] route = "DELETE /api/products/:id" -> <<"auth", "admin">>
    [] route = "GET /api/contact/messages" -> <<"auth", "admin">>
    [] route = "GET /api/contact/messages/:id" -> <<"auth", "admin">>
    [] route = "PUT /api/contact/messages/:id" -> <<"auth", "admin">>
    [] route = "DELETE /api/contact/messages/:id" -> <<"auth", "admin">>
    [] route = "POST /api/contact" -> <<>>
    [] OTHER -> <<>>

InChain(route, mw) == \E i \in 1..Len(Chain(route)) : Chain(route)[i] = mw

\* Express runs the chain in order; a middleware that answers ends the request.
RunChainWith(route, a, d) ==
  [passed |-> a.passed /\ d.passed,
   status |-> IF ~a.passed THEN a.status ELSE d.status,
   msg |-> IF ~a.passed THEN a.msg ELSE d.msg,
   user |-> a.user,
   nexts |-> a.nexts,
   ran |-> (IF InChain(route, "auth") THEN {"auth"} ELSE {})
           \cup (IF InChain(route, "admin") /\ a.passed THEN {"admin"} ELSE {})
           \cup (IF a.passed /\ d.passed THEN {"handler"} ELSE {})]

RunChainAfter(route, a) ==
  RunChainWith(route, a, IF InChain(route, "admin") /\ a.passed THEN Admin(a.user) ELSE Passed)

RunChain(route, h) ==
  RunChainAfter(route, IF InChain(route, "auth") THEN Auth(h) ELSE Passed)

\* ---------------------------------------------------------------- requests
NoBody == [username |-> "", email |-> "", password |-> "", is_admin |-> <<>>,
           current_password |-> "", new_password |-> ""]

Idle == [route |-> "none", header |-> NoHeader, id |-> 0, body |-> NoBody, pc |-> "idle",
         ran |-> {}, nexts |-> 0, user |-> NoClaims, status |-> 0, msg |-> "",
         snap |-> NoUser, out |-> NoClaims, token |-> NoClaims, rows |-> {}]

\* The request as the handler receives it from the middleware chain.
NewReq(route, h, id, body) ==
  LET m == RunChain(route, h) IN
  [route |-> route, header |-> h, id |-> id, body |-> body,
   pc |-> IF m.passed THEN "handler" ELSE "done",
   ran |-> m.ran, nexts |-> m.nexts, user |-> m.user, status |-> m.status, msg |-> m.msg,
   snap |-> NoUser, out |-> NoClaims, token |-> NoClaims, rows |-> {}]

\* res.status(status).json({success, message})
Respond(r, status, msg) == [r EXCEPT !.pc = "done", !.status = status, !.msg = msg]

\* express-validator: body('email').isEmail(), body('password').isLength({min: 6}), ...
IsEmail(s) == s \in {"admin@example.com", "bob@example.com"}
ValidCreate(b) ==
  b.username # "" /\ IsEmail(b.email) /\ Len(b.password) >= 6 /\ Len(b.is_admin) = 1
ValidLogin(b) == b.username # "" /\ b.password # ""
ValidChangePassword(b) == b.current_password # "" /\ Len(b.new_password) >= 6

\* The headers of a client that sends no header or a token the server signed.
IssuedHeaders == {NoHeader} \cup {Bearer(SignedToken(c)) : c \in tokens}

\* The headers of any client: also an empty bearer, a token signed with another
\* key (with and without the "Bearer " prefix) and an expired token.
AnyHeaders ==
  IssuedHeaders
  \cup {Bearer(EmptyToken), Bearer(ForgedToken(Payload(SeedAdmin))),
        Raw(ForgedToken(Payload(SeedAdmin))), Bearer(ExpiredToken(Payload(SeedAdmin)))}
  \cup {Raw(SignedToken(c)) : c \in tokens}

CreateBodies ==
  {[NoBody EXCEPT !.username = "bob", !.email = "bob@example.com",
                  !.password = "secret1", !.is_admin = <<a>>] : a \in BOOLEAN}
  \cup {[NoBody EXCEPT !.username = "admin", !.email = "bob@example.com",
                       !.password = "secret1", !.is_admin = <<FALSE>>],
        [NoBody EXCEPT !.username = "bob", !.email = "bob@example.com",
                       !.password = "123", !.is_admin = <<TRUE>>]}

PutBodies ==
  {[NoBody EXCEPT !.is_admin = <<a>>] : a \in BOOLEAN}
  \cup {[NoBody EXCEPT !.username = "bob"], [NoBody EXCEPT !.email = "admin@example.com"],
        [NoBody EXCEPT !.password = "secret2"],
        [NoBody EXCEPT !.username = "carol", !.email = "carol@example.com"]}

LoginBodies ==
  {[NoBody EXCEPT !.username = n, !.password = p] :
     n \in {"admin", "bob"}, p \in {"admin123", "secret1"}}

ChangePasswordBodies ==
  {[NoBody EXCEPT !.current_password = c, !.new_password = "secret2"] :
     c \in {"admin123", "secret1"}}

\* What a caller sends with header h: a request the middleware answers is
\* answered whatever its id and body are.
IdsWith(route, h) == IF RunChain(route, h).passed THEN 1..MaxUserId ELSE {1}
UserBodiesWith(route, h, bodies) == IF RunChain(route, h).passed THEN bodies ELSE {NoBody}

\* The administrator's token and no token.
AdminHeaders == {NoHeader, Bearer(SignedToken(Payload(SeedAdmin)))}

\* A new request takes the lowest slot that holds no request in flight.
\* An exception no handler caught has ended the process: the requests that
\* were in flight are never answered and no request is accepted.
Crashed == \E t \in Slots : req[t].pc = "crashed"

CanStart(s, cap) ==
  /\ req[s].pc \in {"idle", "done"}
  /\ started < cap
  /\ \A t \in 1..(s - 1) : req[t].pc \notin {"idle", "done"}
  /\ ~Crashed


\* Creating requests that have passed their lookups and will insert a row.
Inserting == Cardinality({s \in Slots : req[s].pc \in {"chk_email", "create"}})

\* The request in slot s moves on; the user and auth routes touch no other table.
Put(s, r) ==
  /\ req' = [req EXCEPT ![s] = r]
  /\ UNCHANGED <<catalogVars, listVars, contactVars>>

\* --------------------------------------------------- POST /api/auth/login
\* An unknown username answered apart from a wrong password.
LoginTellsUnknown(r) ==
  IF ~ValidLogin(r.body) THEN Respond(r, 400, "errors")
  ELSE LET u == FindByUsername(r.body.username) IN
    IF u = NoUser THEN Respond(r, 404, "User not found")
    ELSE IF ~ComparePassword(u, r.body.password) THEN Respond(r, 401, "Invalid credentials")
    ELSE [Respond(r, 200, "") EXCEPT !.snap = u, !.out = Payload(u), !.token = Payload(u)]

\* findOne by username, comparePassword, jwt.sign and its callback.
Login(r) ==
  IF ~ValidLogin(r.body) THEN Respond(r, 400, "errors")
  ELSE LET u == FindByUsername(r.body.username) IN
    IF u = NoUser THEN Respond(r, 401, "Invalid credentials")
    ELSE IF ~ComparePassword(u, r.body.password) THEN Respond(r, 401, "Invalid credentials")
    ELSE [Respond(r, 200, "") EXCEPT !.snap = u, !.out = Payload(u), !.token = Payload(u)]

StartLogin(s, cap) ==
  /\ CanStart(s, cap)
  /\ \E b \in LoginBodies :
       LET r == Login(NewReq("POST /api/auth/login", NoHeader, 0, b)) IN
       /\ Put(s, r)
       /\ tokens' = IF r.status = 200 THEN tokens \cup {r.token} ELSE tokens
  /\ started' = started + 1
  /\ UNCHANGED <<users, nextUserId>>

\* The login with jwt.sign as a step of its own: the handler returns once it
\* has called jwt.sign, and the callback runs later.
LoginSigning(r) ==
  LET r1 == Login(r) IN
  IF r1.status = 200
    THEN [r1 EXCEPT !.pc = "sign", !.status = 0, !.out = NoClaims]
    ELSE r1

StartLoginSigning(s, cap) ==
  /\ CanStart(s, cap)
  /\ \E b \in LoginBodies :
       Put(s, LoginSigning(NewReq("POST /api/auth/login", NoHeader, 0, b)))
  /\ started' = started + 1
  /\ UNCHANGED <<users, nextUserId, tokens>>

\* The process exits: every request in flight stays without a response.
Exit == [t \in Slots |-> IF req[t].pc \in {"idle", "done"}
                          THEN req[t] ELSE [req[t] EXCEPT !.pc = "crashed"]]

\* (err, token) => { if (err) throw err; res.json({success, token, user}) }:
\* the callback runs outside the handler's try block, so what it throws is
\* caught by nothing and ends the process.
SignCallback(s) ==
  /\ req[s].pc = "sign"
  /\ \E err \in BOOLEAN :
       IF err
         THEN /\ req' = Exit
              /\ UNCHANGED <<tokens, catalogVars, listVars, contactVars>>
         ELSE /\ Put(s, [Respond(req[s], 200, "") EXCEPT !.out = req[s].token])
              /\ tokens' = tokens \cup {req[s].token}
  /\ UNCHANGED <<users, nextUserId, started>>

\* ------------------------------------------------------ GET /api/auth/me
\* The route is registered without auth, so req.user is undefined: reading
\* req.user.id throws inside the try and the catch answers 500.
Me(r) ==
  IF "auth" \notin r.ran THEN Respond(r, 500, "Server error")
  ELSE LET u == FindByPk(r.user.id) IN
    IF u = NoUser THEN Respond(r, 404, "User not found")
    ELSE [Respond(r, 200, "") EXCEPT !.out = WithoutPassword(u)]

StartMe(s, H, cap) ==
  /\ CanStart(s, cap)
  /\ \E h \in H : Put(s, Me(NewReq("GET /api/auth/me", h, 0, NoBody)))
  /\ started' = started + 1
  /\ UNCHANGED <<users, nextUserId, tokens>>

\* ------------------------------- GET /api/users and GET /api/users/:id
\* The option left out: the row as it is stored.
ExcludeNothing(u, attrs) == u

\* attributes: {exclude: [...]}: the row without the named attributes.
Exclude(u, attrs) == [a \in DOMAIN u \ attrs |-> u[a]]

\* User.findAll({attributes: {exclude: ['password']}}) and the response.
GetUsers(r) ==
  [Respond(r, 200, "") EXCEPT !.rows = {Exclude(u, {"password"}) : u \in users}]

StartGetUsers(s, H, cap) ==
  /\ CanStart(s, cap)
  /\ \E h \in H :
       LET r0 == NewReq("GET /api/users", h, 0, NoBody) IN
       Put(s, IF r0.pc = "done" THEN r0 ELSE GetUsers(r0))
  /\ started' = started + 1
  /\ UNCHANGED <<users, nextUserId, tokens>>

\* User.findByPk(id, {attributes: {exclude: ['password']}}), 404 or the user.
GetUser(r) ==
  LET u == FindByPk(r.id) IN
  IF u = NoUser THEN Respond(r, 404, "User not found")
  ELSE [Respond(r, 200, "") EXCEPT !.out = Exclude(u, {"password"})]

StartGetUser(s, H, cap) ==
  /\ CanStart(s, cap)
  /\ \E h \in H : \E id \in IdsWith("GET /api/users/:id", h) :
       LET r0 == NewReq("GET /api/users/:id", h, id, NoBody) IN
       Put(s, IF r0.pc = "done" THEN r0 ELSE GetUser(r0))
  /\ started' = started + 1
  /\ UNCHANGED <<users, nextUserId, tokens>>

\* ------------------------- POST /api/users and POST /api/auth/register
\* The lookup by username left out.
CreateNoLookup(r) ==
  IF ~ValidCreate(r.body) THEN Respond(r, 400, "errors")
  ELSE [r EXCEPT !.pc = "chk_email"]

\* Validation, then findOne by username.
CreateLookup(r) ==
  IF ~ValidCreate(r.body) THEN Respond(r, 400, "errors")
  ELSE IF FindByUsername(r.body.username) # NoUser
    THEN Respond(r, 400, "Username already exists")
    ELSE [r EXCEPT !.pc = "chk_email"]

StartCreate(s, route, h, b, cap) ==
  LET r0 == NewReq(route, h, 0, b) IN
  /\ CanStart(s, cap)
  /\ nextUserId + Inserting <= MaxUserId
  /\ Put(s, IF r0.pc = "done" THEN r0 ELSE CreateLookup(r0))
  /\ started' = started + 1
  /\ UNCHANGED <<users, nextUserId, tokens>>

StartPostUser(s, H, cap) ==
  \E h \in H :
    \E b \in UserBodiesWith("POST /api/users", h, CreateBodies) :
      StartCreate(s, "POST /api/users", h, b, cap)

StartRegister(s, H, cap) ==
  \E h \in H, b \in CreateBodies : StartCreate(s, "POST /api/auth/register", h, b, cap)

\* findOne by email.
CreateCheckEmail(s) ==
  /\ req[s].pc = "chk_email"
  /\ Put(s, IF FindByEmail(req[s].body.email) # NoUser
              THEN Respond(req[s], 400, "Email already exists")
              ELSE [req[s] EXCEPT !.pc = "create"])
  /\ UNCHANGED <<users, nextUserId, tokens, started>>

\* The User model's unique username and unique email: an insert or update is
\* rejected when another row holds the username or the email.
UserWriteRejects(values) ==
  \E u \in users :
    u.id # values.id /\ (u.username = values.username \/ u.email = values.email)

\* User.create({username, email, password, is_admin})
NewUser(b) == [id |-> nextUserId, username |-> b.username, email |-> b.email,
               password |-> Hash(b.password), is_admin |-> b.is_admin[1]]

\* The response of the two creating routes: 201 {user} from POST /api/users,
\* the jwt.sign callback's {token, user} from register.
Created(r, u) ==
  IF r.route = "POST /api/auth/register"
    THEN [Respond(r, 200, "") EXCEPT !.snap = u, !.out = Payload(u), !.token = Payload(u)]
    ELSE [Respond(r, 201, "") EXCEPT !.snap = u, !.out = WithoutPassword(u)]

CreateUser(s) ==
  /\ req[s].pc = "create"
  /\ LET u == NewUser(req[s].body)
         r == Created(req[s], u) IN
       IF UserWriteRejects(u)
         THEN /\ Put(s, Respond(req[s], 500, "Server error"))
              /\ UNCHANGED <<users, nextUserId, tokens>>
         ELSE /\ users' = users \cup {u}
              /\ nextUserId' = nextUserId + 1
              /\ Put(s, r)
              /\ tokens' = IF r.token # NoClaims THEN tokens \cup {r.token} ELSE tokens
  /\ UNCHANGED started

\* ------------------------------------------------------ PUT /api/users/:id
\* The next lookup the handler awaits after step `from`.
PutNext(r, from) ==
  IF from = "find" /\ r.body.username # "" /\ r.body.username # r.snap.username
    THEN "chk_username"
  ELSE IF from # "chk_email" /\ r.body.email # "" /\ r.body.email # r.snap.email
    THEN "put_chk_email"
  ELSE "update"

PutFind(r) ==
  LET u == FindByPk(r.id) IN
  IF u = NoUser THEN Respond(r, 404, "User not found")
  ELSE LET r1 == [r EXCEPT !.snap = u] IN [r1 EXCEPT !.pc = PutNext(r1, "find")]

StartPutUser(s, H, cap) ==
  /\ CanStart(s, cap)
  /\ \E h \in H :
     \E id \in IdsWith("PUT /api/users/:id", h),
        b \in UserBodiesWith("PUT /api/users/:id", h, PutBodies) :
       LET r0 == NewReq("PUT /api/users/:id", h, id, b) IN
       Put(s, IF r0.pc = "done" THEN r0 ELSE PutFind(r0))
  /\ started' = started + 1
  /\ UNCHANGED <<users, nextUserId, tokens>>

PutCheckUsername(s) ==
  /\ req[s].pc = "chk_username"
  /\ Put(s, IF FindByUsername(req[s].body.username) # NoUser
              THEN Respond(req[s], 400, "Username already exists")
              ELSE [req[s] EXCEPT !.pc = PutNext(req[s], "chk_username")])
  /\ UNCHANGED <<users, nextUserId, tokens, started>>

PutCheckEmail(s) ==
  /\ req[s].pc = "put_chk_email"
  /\ Put(s, IF FindByEmail(req[s].body.email) # NoUser
              THEN Respond(req[s], 400, "Email already exists")
              ELSE [req[s] EXCEPT !.pc = PutNext(req[s], "chk_email")])
  /\ UNCHANGED <<users, nextUserId, tokens, started>>

\* The password written whether or not the body supplies one.
UpdateDataWithPassword(u, b) ==
  [id |-> u.id,
   username |-> IF b.username # "" THEN b.username ELSE u.username,
   email |-> IF b.email # "" THEN b.email ELSE u.email,
   is_admin |-> IF b.is_admin # <<>> THEN b.is_admin[1] ELSE u.is_admin,
   password |-> Hash(b.password)]

\* const updateData = {username: body.username || user.username, ...}
UpdateData(u, b) ==
  [id |-> u.id,
   username |-> IF b.username # "" THEN b.username ELSE u.username,
   email |-> IF b.email # "" THEN b.email ELSE u.email,
   is_admin |-> IF b.is_admin # <<>> THEN b.is_admin[1] ELSE u.is_admin,
   password |-> IF b.password # "" THEN Hash(b.password) ELSE u.password]

\* user.update(data): UPDATE ... SET <the fields that changed> WHERE id = user.id
SaveChanged(row, old, new) ==
  [id |-> row.id,
   username |-> IF new.username # old.username THEN new.username ELSE row.username,
   email |-> IF new.email # old.email THEN new.email ELSE row.email,
   is_admin |-> IF new.is_admin # old.is_admin THEN new.is_admin ELSE row.is_admin,
   password |-> IF new.password # old.password THEN new.password ELSE row.password]

UpdateRow(old, new) ==
  {IF u.id = old.id THEN SaveChanged(u, old, new) ELSE u : u \in users}

UpdateUser(s) ==
  /\ req[s].pc = "update"
  /\ LET new == UpdateData(req[s].snap, req[s].body)
         rows == UpdateRow(req[s].snap, new)
     IN
       IF \E u \in rows : u.id = new.id /\ UserWriteRejects(u)
         THEN /\ Put(s, Respond(req[s], 500, "Server error"))
              /\ UNCHANGED users
         ELSE /\ users' = rows
              /\ Put(s, [Respond(req[s], 200, "") EXCEPT !.out = WithoutPassword(new)])
  /\ UNCHANGED <<nextUserId, tokens, started>>

\* --------------------------------------------------- DELETE /api/users/:id
DeleteFind(r) ==
  LET u == FindByPk(r.id) IN
  IF u = NoUser THEN Respond(r, 404, "User not found")
  ELSE [r EXCEPT !.snap = u, !.pc = IF u.is_admin THEN "count" ELSE "destroy"]

StartDeleteUser(s, H, cap) ==
  /\ CanStart(s, cap)
  /\ \E h \in H :
     \E id \in IdsWith("DELETE /api/users/:id", h) :
       LET r0 == NewReq("DELETE /api/users/:id", h, id, NoBody) IN
       Put(s, IF r0.pc = "done" THEN r0 ELSE DeleteFind(r0))
  /\ started' = started + 1
  /\ UNCHANGED <<users, nextUserId, tokens>>

\* The guard off by one: adminCount < 1.
LastAdminOffByOne(adminCount) == adminCount < 1

\* if (adminCount <= 1) return 400
LastAdmin(adminCount) == adminCount <= 1

DeleteCount(s) ==
  /\ req[s].pc = "count"
  /\ Put(s, IF LastAdmin(AdminCount)
              THEN Respond(req[s], 400, "Cannot delete the last admin user")
              ELSE [req[s] EXCEPT !.pc = "destroy"])
  /\ UNCHANGED <<users, nextUserId, tokens, started>>

\* user.destroy(): DELETE ... WHERE id = user.id
DestroyRow(u) == {x \in users : x.id # u.id}

DestroyUser(s) ==
  /\ req[s].pc = "destroy"
  /\ users' = DestroyRow(req[s].snap)
  /\ Put(s, Respond(req[s], 200, "User deleted successfully"))
  /\ UNCHANGED <<nextUserId, tokens, started>>

\* The check of the caller left out.
ChangePasswordFindAnyCaller(r) ==
  IF ~ValidChangePassword(r.body) THEN Respond(r, 400, "errors")
  ELSE LET u == FindByPk(r.id) IN
    IF u = NoUser THEN Respond(r, 404, "User not found")
    ELSE IF ~ComparePassword(u, r.body.current_password)
      THEN Respond(r, 400, "Current password is incorrect")
    ELSE [r EXCEPT !.snap = u, !.pc = "update_pw"]

\* ------------------------------------ PUT /api/users/:id/change-password
ChangePasswordFind(r) ==
  IF ~ValidChangePassword(r.body) THEN Respond(r, 400, "errors")
  ELSE LET u == FindByPk(r.id) IN
    IF u = NoUser THEN Respond(r, 404, "User not found")
    ELSE IF r.user.id # u.id /\ ~r.user.is_admin
      THEN Respond(r, 403, "Not authorized to change this user's password")
    ELSE IF ~ComparePassword(u, r.body.current_password)
      THEN Respond(r, 400, "Current password is incorrect")
    ELSE [r EXCEPT !.snap = u, !.pc = "update_pw"]

StartChangePassword(s, H, cap) ==
  /\ CanStart(s, cap)
  /\ \E h \in H :
     \E id \in IdsWith("PUT /api/users/:id/change-password", h),
        b \in UserBodiesWith("PUT /api/users/:id/change-password", h, ChangePasswordBodies) :
       LET r0 == NewReq("PUT /api/users/:id/change-password", h, id, b) IN
       Put(s, IF r0.pc = "done" THEN r0 ELSE ChangePasswordFind(r0))
  /\ started' = started + 1
  /\ UNCHANGED <<users, nextUserId, tokens>>

UpdatePassword(s) ==
  /\ req[s].pc = "update_pw"
  /\ users' = UpdateRow(req[s].snap,
                        [req[s].snap EXCEPT !.password = Hash(req[s].body.new_password)])
  /\ Put(s, Respond(req[s], 200, "Password changed successfully"))
  /\ UNCHANGED <<nextUserId, tokens, started>>

\* ================================================================ catalog
\* Stored files are numbered; image_url holds the number of the file it names.
NoFile == 0
Placeholder == 1      \* '/images/placeholder.jpg', the image of the seeded products

NoCategory == [id |-> 0, name |-> "", slug |-> "", description |-> "", image_url |-> NoFile]
NoProduct == [id |-> 0, name |-> "", slug |-> "", model_number |-> "", category_id |-> 0]

\* The catalog the handlers start from: the seeded catalog after an
\* administrator has deleted the third product and all categories but two with
\* a product (1, 2) and one without (5); each product has its placeholder image.
SeedCategories ==
  {[id |-> 1, name |-> "Digital Watch", slug |-> "digital-watch",
    description |-> "Modern digital watches", image_url |-> NoFile],
   [id |-> 2, name |-> "Quartz Watch", slug |-> "quartz-watch",
    description |-> "Classic quartz watches", image_url |-> NoFile],
   [id |-> 5, name |-> "Smart Watch", slug |-> "smart-watch",
    description |-> "Smart watches", image_url |-> NoFile]}
SeedProducts ==
  {[id |-> 1, name |-> "Digital Watch 1894", slug |-> "digital-watch-1894",
    model_number |-> "1894", category_id |-> 1],
   [id |-> 2, name |-> "Quartz Watch 1961", slug |-> "quartz-watch-1961",
    model_number |-> "1961", category_id |-> 2]}
SeedImages ==
  {[id |-> p.id, product_id |-> p.id, image_url |-> Placeholder, is_primary |-> TRUE] :
     p \in SeedProducts}
FirstNewCategoryId == 9
FirstNewImageId == 4

\* Category.findByPk, Category.findOne({where: {slug}}), Product.findByPk
CategoryByPk(id) == IF \E c \in categories : c.id = id
                    THEN CHOOSE c \in categories : c.id = id ELSE NoCategory
CategoryBySlug(slug) == IF \E c \in categories : c.slug = slug
                        THEN CHOOSE c \in categories : c.slug = slug ELSE NoCategory
ProductByPk(id) == IF \E p \in products : p.id = id
                   THEN CHOOSE p \in products : p.id = id ELSE NoProduct

\* Product.count({where: {category_id}})
ProductCount(cid) == Cardinality({p \in products : p.category_id = cid})

\* ProductImage.findAll({where: {product_id}})
ImagesOf(pid) == {i \in images : i.product_id = pid}

\* The foreign key without its ON DELETE action: the products keep the id.
OnDeleteNoAction(cid) == products

\* products.category_id REFERENCES categories(id): a deleted category's
\* products are kept with category_id NULL.
OnDeleteCategory(cid) ==
  {IF p.category_id = cid THEN [p EXCEPT !.category_id = 0] ELSE p : p \in products}

\* The same foreign key on a write: the referenced category must exist.
CategoryKeyHolds(cid) == cid = 0 \/ \E c \in categories : c.id = cid

\* Product.slug is allowNull: false: Product.create rejects values without a slug.
ProductCreateRejects(values) == values.slug = ""

\* product_images.product_id REFERENCES products(id) ON DELETE CASCADE: a
\* deleted product's images are deleted with it.
OnDeleteProduct(pid) == images \ ImagesOf(pid)

\* The same foreign key on a write: the referenced product must exist.
ProductKeyHolds(pid) == \E p \in products : p.id = pid

\* if (fs.existsSync(path)) fs.unlinkSync(path)
Unlink(stored, gone) == stored \ gone

\* ------------------------------------------------------ catalog requests
NoCBody == [name |-> "", slug |-> "", model_number |-> "", description |-> "",
            category_id |-> 0, replace_images |-> ""]
NoUpload == [n |-> 0, image |-> TRUE]

CIdle == [route |-> "none", header |-> NoHeader, id |-> 0, body |-> NoCBody,
          upload |-> NoUpload, pc |-> "idle", ran |-> {}, user |-> NoClaims,
          status |-> 0, msg |-> "", n |-> 0, files |-> <<>>, product |-> NoProduct,
          category |-> NoCategory, existing |-> {}]

CRespond(r, status, msg) == [r EXCEPT !.pc = "done", !.status = status, !.msg = msg]

\* The files multer writes for the request: fresh names, in upload order.
Written(r) == [k \in 1..r.upload.n |-> nextFile + k - 1]
Range(f) == {f[k] : k \in DOMAIN f}

\* auth, admin, then (on the routes that take files) multer: its fileFilter
\* rejects a file that is not an image before it is stored and passes the error
\* to the error handler, which answers 500.
CNewReqUploadFirst(route, h, id, body, up) ==
  LET m == RunChain(route, h)
      r == [CIdle EXCEPT !.route = route, !.header = h, !.id = id, !.body = body,
                         !.upload = up, !.ran = m.ran, !.user = m.user,
                         !.status = m.status, !.msg = m.msg,
                         !.pc = IF m.passed THEN "handler" ELSE "done"]
  IN IF InChain(route, "upload") /\ up.image
       THEN [r EXCEPT !.files = Written(r), !.ran = r.ran \cup {"upload"}]
       ELSE r

CNewReq(route, h, id, body, up) ==
  LET m == RunChain(route, h)
      r == [CIdle EXCEPT !.route = route, !.header = h, !.id = id, !.body = body,
                         !.upload = up, !.ran = m.ran, !.user = m.user,
                         !.status = m.status, !.msg = m.msg,
                         !.pc = IF m.passed THEN "handler" ELSE "done"]
  IN IF ~m.passed THEN r
     ELSE IF ~up.image
       THEN [CRespond(r, 500, "Internal Server Error") EXCEPT !.ran = {"auth", "admin", "upload"}]
     ELSE IF InChain(route, "upload")
       THEN [r EXCEPT !.files = Written(r), !.ran = r.ran \cup {"upload"}]
     ELSE r

\* The request in slot s moves on; the catalog routes touch no other table.
CPut(s, r) ==
  /\ creq' = [creq EXCEPT ![s] = r]
  /\ UNCHANGED <<userVars, listVars, contactVars>>

CCanStart(s) ==
  /\ creq[s].pc \in {"idle", "done"}
  /\ cstarted < MaxCatalogStarted
  /\ \A t \in 1..(s - 1) : creq[t].pc \notin {"idle", "done"}

\* The admin's token, and no token.
CatalogHeaders == {NoHeader, Bearer(SignedToken(Payload(SeedAdmin)))}

\* What a caller sends with header h: a request without a token is answered by
\* auth whatever its body is; it may carry image files.
BodiesWith(h, bodies) == IF h = NoHeader THEN {NoCBody} ELSE bodies
UploadsWith(h, uploads) == IF h = NoHeader THEN {u \in uploads : u.image} ELSE uploads

\* No file, max image files, or a file that is not an image.
Uploads(max) == {[n |-> k, image |-> TRUE] : k \in {0, max}} \cup {[n |-> 1, image |-> FALSE]}

\* A request arrives: the chain runs, multer stores the files, the handler runs
\* up to its first await.
CStart(s, r0, r1) ==
  /\ CCanStart(s)
  /\ CPut(s, IF r0.pc = "done" THEN r0 ELSE r1)
  /\ files' = files \cup Range(r0.files)
  /\ nextFile' = nextFile + Len(r0.files)
  /\ cstarted' = cstarted + 1
  /\ UNCHANGED <<categories, products, images, nextCategoryId, nextImageId>>

\* ---------------------------------------------------- POST /api/categories
PostCategoryBodies ==
  {[NoCBody EXCEPT !.name = "Sport Watch", !.slug = "sport-watch"],
   [NoCBody EXCEPT !.name = "Smart Watch 2", !.slug = "smart-watch"],
   [NoCBody EXCEPT !.slug = "sport-watch"]}

\* The lookup by slug left out.
PostCategoryNoLookup(r) ==
  IF r.body.name = "" \/ r.body.slug = "" THEN CRespond(r, 400, "errors")
  ELSE [r EXCEPT !.pc = "create_category"]

\* Validation, then Category.findOne({where: {slug}}).
PostCategoryLookup(r) ==
  IF r.body.name = "" \/ r.body.slug = "" THEN CRespond(r, 400, "errors")
  ELSE IF CategoryBySlug(r.body.slug) # NoCategory
    THEN CRespond(r, 400, "Category with this slug already exists")
    ELSE [r EXCEPT !.pc = "create_category"]

CreatingCategories == Cardinality({s \in Slots : creq[s].pc = "create_category"})

\* The slug of the request is the slug a create in flight is about to store.
SlugInFlight(b) ==
  \E t \in Slots : creq[t].pc = "create_category" /\ creq[t].body.slug = b.slug

\* At most MaxNewCategories new slugs in one behaviour; a second request for
\* a slug in flight may arrive next to the first.
StartPostCategory(s) ==
  /\ nextCategoryId < FirstNewCategoryId + MaxNewCategories
  /\ \E h \in CatalogHeaders :
       \E b \in BodiesWith(h, PostCategoryBodies), up \in UploadsWith(h, Uploads(1)) :
       /\ \/ nextCategoryId + CreatingCategories < FirstNewCategoryId + MaxNewCategories
          \/ SlugInFlight(b)
       /\ LET r0 == CNewReq("POST /api/categories", h, 0, b, up) IN
          CStart(s, r0, PostCategoryLookup(r0))

\* The Category model's unique slug: create rejects a slug that is stored.
CategoryCreateRejects(values) == CategoryBySlug(values.slug) # NoCategory

\* Category.create whose rejection is swallowed: 201 either way.
CreateCategoryAnswers201(s) ==
  LET r == creq[s]
      c == [id |-> nextCategoryId, name |-> r.body.name, slug |-> r.body.slug,
            description |-> r.body.description,
            image_url |-> IF Len(r.files) > 0 THEN r.files[1] ELSE NoFile]
  IN
  /\ r.pc = "create_category"
  /\ IF CategoryCreateRejects(c)
       THEN /\ CPut(s, [CRespond(r, 201, "") EXCEPT !.category = c])
            /\ UNCHANGED <<categories, nextCategoryId>>
       ELSE /\ categories' = categories \cup {c}
            /\ nextCategoryId' = nextCategoryId + 1
            /\ CPut(s, [CRespond(r, 201, "") EXCEPT !.category = c])
  /\ UNCHANGED <<products, images, files, nextImageId, nextFile, cstarted>>

\* Category.create({name, slug, description, image_url})
CreateCategory(s) ==
  LET r == creq[s]
      c == [id |-> nextCategoryId, name |-> r.body.name, slug |-> r.body.slug,
            description |-> r.body.description,
            image_url |-> IF Len(r.files) > 0 THEN r.files[1] ELSE NoFile]
  IN
  /\ r.pc = "create_category"
  /\ IF CategoryCreateRejects(c)
       THEN /\ CPut(s, CRespond(r, 500, "Server error"))
            /\ UNCHANGED <<categories, nextCategoryId>>
       ELSE /\ categories' = categories \cup {c}
            /\ nextCategoryId' = nextCategoryId + 1
            /\ CPut(s, [CRespond(r, 201, "") EXCEPT !.category = c])
  /\ UNCHANGED <<products, images, files, nextImageId, nextFile, cstarted>>

\* -------------------------------------------------- PUT /api/categories/:id
\* A slug another category holds, the slug a POST may be creating, a name, a
\* description.
PutCategoryBodies ==
  {[NoCBody EXCEPT !.slug = "quartz-watch"],
   [NoCBody EXCEPT !.slug = "sport-watch"],
   [NoCBody EXCEPT !.name = "Renamed"],
   [NoCBody EXCEPT !.description = "New text"]}

\* if (req.file && category.image_url): the old image file is unlinked before
\* the update is awaited.
PutCategoryUnlinks(r, c) ==
  IF Len(r.files) > 0 /\ c.image_url # NoFile THEN {c.image_url} ELSE {}

\* Category.findByPk; the slug lookup follows when the body changes the slug.
PutCategoryFind(r) ==
  LET c == CategoryByPk(r.id) IN
  IF c = NoCategory THEN CRespond(r, 404, "Category not found")
  ELSE [r EXCEPT !.category = c,
                 !.pc = IF r.body.slug # "" /\ r.body.slug # c.slug
                          THEN "check_slug" ELSE "update_category"]

\* The request arrives as in CStart; when the handler goes straight on to the
\* update, the old image file is unlinked on the way.
CStartPutCategory(s, r0, r1) ==
  /\ CCanStart(s)
  /\ CPut(s, IF r0.pc = "done" THEN r0 ELSE r1)
  /\ files' = Unlink(files \cup Range(r0.files),
                     IF r0.pc # "done" /\ r1.pc = "update_category"
                       THEN PutCategoryUnlinks(r1, r1.category) ELSE {})
  /\ nextFile' = nextFile + Len(r0.files)
  /\ cstarted' = cstarted + 1
  /\ UNCHANGED <<categories, products, images, nextCategoryId, nextImageId>>

StartPutCategory(s) ==
  \E h \in CatalogHeaders, id \in {1, FirstNewCategoryId} :
    \E b \in BodiesWith(h, PutCategoryBodies), up \in UploadsWith(h, Uploads(1)) :
    LET r0 == CNewReq("PUT /api/categories/:id", h, id, b, up) IN
    CStartPutCategory(s, r0, PutCategoryFind(r0))

\* Category.findOne({where: {slug}}) for the new slug.
PutCategoryCheckSlug(s) ==
  LET r == creq[s] IN
  /\ r.pc = "check_slug"
  /\ IF CategoryBySlug(r.body.slug) # NoCategory
       THEN /\ CPut(s, CRespond(r, 400, "Category with this slug already exists"))
            /\ UNCHANGED files
       ELSE /\ CPut(s, [r EXCEPT !.pc = "update_category"])
            /\ files' = Unlink(files, PutCategoryUnlinks(r, r.category))
  /\ UNCHANGED <<categories, products, images, nextCategoryId, nextImageId, nextFile,
                 cstarted>>

\* category.update({name: body.name || category.name, ...})
CategoryUpdateData(c, r) ==
  [id |-> c.id,
   name |-> IF r.body.name # "" THEN r.body.name ELSE c.name,
   slug |-> IF r.body.slug # "" THEN r.body.slug ELSE c.slug,
   description |-> IF r.body.description # "" THEN r.body.description ELSE c.description,
   image_url |-> IF Len(r.files) > 0 THEN r.files[1] ELSE c.image_url]

\* UPDATE ... SET <the fields that changed> WHERE id = category.id
SaveChangedCategory(row, old, new) ==
  [id |-> row.id,
   name |-> IF new.name # old.name THEN new.name ELSE row.name,
   slug |-> IF new.slug # old.slug THEN new.slug ELSE row.slug,
   description |-> IF new.description # old.description
                     THEN new.description ELSE row.description,
   image_url |-> IF new.image_url # old.image_url THEN new.image_url ELSE row.image_url]

\* The Category model's unique slug: an update is rejected when another row
\* holds the slug.
CategoryUpdateRejects(values) ==
  \E c \in categories : c.id # values.id /\ c.slug = values.slug

UpdateCategory(s) ==
  LET r == creq[s]
      new == CategoryUpdateData(r.category, r)
      rows == {IF c.id = r.category.id THEN SaveChangedCategory(c, r.category, new) ELSE c :
               c \in categories}
  IN
  /\ r.pc = "update_category"
  /\ IF \E c \in rows : c.id = new.id /\ CategoryUpdateRejects(c)
       THEN /\ CPut(s, CRespond(r, 500, "Server error"))
            /\ UNCHANGED categories
       ELSE /\ categories' = rows
            /\ CPut(s, [CRespond(r, 200, "") EXCEPT !.category = new])
  /\ UNCHANGED <<products, images, files, nextCategoryId, nextImageId, nextFile, cstarted>>

\* ----------------------------------------------- DELETE /api/categories/:id
DeleteCategoryFind(r) ==
  LET c == CategoryByPk(r.id) IN
  IF c = NoCategory THEN CRespond(r, 404, "Category not found")
  ELSE [r EXCEPT !.category = c, !.pc = "count_products"]

StartDeleteCategory(s) ==
  \E h \in CatalogHeaders, id \in {1, 5, FirstNewCategoryId} :
    LET r0 == CNewReq("DELETE /api/categories/:id", h, id, NoCBody, NoUpload) IN
    CStart(s, r0, DeleteCategoryFind(r0))

\* productCount > 1 in place of productCount > 0.
HasProductsOffByOne(productCount) == productCount > 1

\* if (productCount > 0) return 400, naming productCount
HasProducts(productCount) == productCount > 0

\* Product.count, the 400 that names the count; otherwise the image file is
\* unlinked and the handler goes on to destroy the row.
DeleteCategoryCountDestroys(s) ==
  LET r == creq[s]
      productCount == ProductCount(r.category.id)
  IN
  /\ r.pc = "count_products"
  /\ categories' = {c \in categories : c.id # r.category.id}
  /\ CPut(s, IF HasProducts(productCount)
               THEN [CRespond(r, 400, "Cannot delete category with n products") EXCEPT
                       !.n = productCount]
               ELSE CRespond(r, 200, "Category deleted successfully"))
  /\ UNCHANGED <<products, images, files, nextCategoryId, nextImageId, nextFile, cstarted>>

DeleteCategoryCount(s) ==
  LET r == creq[s]
      productCount == ProductCount(r.category.id)
  IN
  /\ r.pc = "count_products"
  /\ IF HasProducts(productCount)
       THEN /\ CPut(s, [CRespond(r, 400, "Cannot delete category with n products") EXCEPT
                          !.n = productCount])
            /\ UNCHANGED files
       ELSE /\ CPut(s, [r EXCEPT !.pc = "destroy_category", !.n = productCount])
            /\ files' = IF r.category.image_url # NoFile
                          THEN Unlink(files, {r.category.image_url}) ELSE files
  /\ UNCHANGED <<categories, products, images, nextCategoryId, nextImageId, nextFile, cstarted>>

\* category.destroy(): DELETE ... WHERE id = category.id
DestroyCategory(s) ==
  LET r == creq[s] IN
  /\ r.pc = "destroy_category"
  /\ categories' = {c \in categories : c.id # r.category.id}
  /\ products' = OnDeleteCategory(r.category.id)
  /\ CPut(s, CRespond(r, 200, "Category deleted successfully"))
  /\ UNCHANGED <<images, files, nextCategoryId, nextImageId, nextFile, cstarted>>

\* ------------------------------------------------------ POST /api/products
PostProductBodies ==
  {[NoCBody EXCEPT !.name = "Sport 2001", !.model_number = "2001",
                   !.description = "A sport watch", !.category_id = c] :
     c \in {1, FirstNewCategoryId}}
  \cup {[NoCBody EXCEPT !.model_number = "2001", !.description = "A sport watch",
                        !.category_id = 1]}

\* Validation, Category.findByPk, then Product.create with the body's fields:
\* the route passes no slug, so create rejects and the catch answers 500; the
\* image rows are never reached.
PostProduct(r) ==
  IF r.body.name = "" \/ r.body.model_number = "" \/ r.body.category_id = 0
     \/ r.body.description = ""
    THEN CRespond(r, 400, "errors")
  ELSE IF CategoryByPk(r.body.category_id) = NoCategory
    THEN CRespond(r, 400, "Invalid category")
  ELSE IF ProductCreateRejects([name |-> r.body.name, slug |-> "",
                                model_number |-> r.body.model_number,
                                category_id |-> r.body.category_id])
    THEN CRespond(r, 500, "Server error")
  ELSE [r EXCEPT !.pc = "create_product"]

StartPostProduct(s) ==
  \E h \in CatalogHeaders :
    \E b \in BodiesWith(h, PostProductBodies), up \in UploadsWith(h, Uploads(MaxUpload)) :
    LET r0 == CNewReq("POST /api/products", h, 0, b, up) IN
    CStart(s, r0, PostProduct(r0))

\* ---------------------------------------------------- PUT /api/products/:id
PutProductBodies ==
  {[NoCBody EXCEPT !.category_id = 1],
   [NoCBody EXCEPT !.category_id = 5],
   [NoCBody EXCEPT !.category_id = 5, !.replace_images = "true"],
   [NoCBody EXCEPT !.name = "Renamed"]}

\* The replace_images flag ignored: new images are always appended.
PutProductNextAppends(r, from) ==
  IF from = "find" /\ r.body.category_id # 0 THEN "check_category"
  ELSE IF from \in {"find", "check_category"} THEN "update_product"
  ELSE IF from = "update_product" /\ Len(r.files) = 0 THEN "reload"
  ELSE IF from = "update_product" THEN "bulk_create"
  ELSE "reload"

\* What the handler awaits after its step `from`.
PutProductNext(r, from) ==
  IF from = "find" /\ r.body.category_id # 0 THEN "check_category"
  ELSE IF from \in {"find", "check_category"} THEN "update_product"
  ELSE IF from = "update_product" /\ Len(r.files) = 0 THEN "reload"
  ELSE IF from = "update_product" /\ r.body.replace_images = "true" THEN "find_images"
  ELSE IF from = "update_product" THEN "bulk_create"
  ELSE IF from = "find_images" THEN "destroy_images"
  ELSE IF from = "destroy_images" THEN "bulk_create"
  ELSE "reload"

PutProductFind(r) ==
  LET p == ProductByPk(r.id) IN
  IF p = NoProduct THEN CRespond(r, 404, "Product not found")
  ELSE [r EXCEPT !.product = p, !.pc = PutProductNext(r, "find")]

StartPutProduct(s) ==
  \E h \in CatalogHeaders, id \in {2, 3} :
    \E b \in BodiesWith(h, PutProductBodies), up \in UploadsWith(h, Uploads(MaxUpload)) :
    LET r0 == CNewReq("PUT /api/products/:id", h, id, b, up) IN
    CStart(s, r0, PutProductFind(r0))

PutProductCheckCategory(s) ==
  LET r == creq[s] IN
  /\ r.pc = "check_category"
  /\ CPut(s, IF CategoryByPk(r.body.category_id) = NoCategory
               THEN CRespond(r, 400, "Invalid category")
               ELSE [r EXCEPT !.pc = PutProductNext(r, "check_category")])
  /\ UNCHANGED <<categories, products, images, files, nextCategoryId, nextImageId,
                 nextFile, cstarted>>

\* product.update({name: body.name || product.name, ...}): the changed fields
\* are written to the row with the product's id.
ProductUpdateData(p, b) ==
  [id |-> p.id, slug |-> p.slug,
   name |-> IF b.name # "" THEN b.name ELSE p.name,
   model_number |-> IF b.model_number # "" THEN b.model_number ELSE p.model_number,
   category_id |-> IF b.category_id # 0 THEN b.category_id ELSE p.category_id]

SaveChangedProduct(row, old, new) ==
  [id |-> row.id, slug |-> row.slug,
   name |-> IF new.name # old.name THEN new.name ELSE row.name,
   model_number |-> IF new.model_number # old.model_number
                      THEN new.model_number ELSE row.model_number,
   category_id |-> IF new.category_id # old.category_id
                     THEN new.category_id ELSE row.category_id]

UpdateProduct(s) ==
  LET r == creq[s]
      new == ProductUpdateData(r.product, r.body)
  IN
  /\ r.pc = "update_product"
  /\ IF new.category_id # r.product.category_id /\ ~CategoryKeyHolds(new.category_id)
       THEN /\ CPut(s, CRespond(r, 500, "Server error"))
            /\ UNCHANGED products
       ELSE /\ products' = {IF p.id = r.product.id
                              THEN SaveChangedProduct(p, r.product, new) ELSE p :
                            p \in products}
            /\ CPut(s, [r EXCEPT !.product = new,
                                 !.pc = PutProductNext(r, "update_product")])
  /\ UNCHANGED <<categories, images, files, nextCategoryId, nextImageId, nextFile, cstarted>>

\* ProductImage.findAll, then each existing image's file is unlinked.
PutProductFindImages(s) ==
  LET r == creq[s]
      existing == ImagesOf(r.product.id)
  IN
  /\ r.pc = "find_images"
  /\ files' = Unlink(files, {i.image_url : i \in existing})
  /\ CPut(s, [r EXCEPT !.existing = existing, !.pc = PutProductNext(r, "find_images")])
  /\ UNCHANGED <<categories, products, images, nextCategoryId, nextImageId, nextFile,
                 cstarted>>

\* ProductImage.destroy({where: {product_id}})
PutProductDestroyImages(s) ==
  LET r == creq[s] IN
  /\ r.pc = "destroy_images"
  /\ images' = images \ ImagesOf(r.product.id)
  /\ CPut(s, [r EXCEPT !.pc = PutProductNext(r, "destroy_images")])
  /\ UNCHANGED <<categories, products, files, nextCategoryId, nextImageId, nextFile,
                 cstarted>>

\* No image of an upload marked primary.
NewImagesNonePrimary(r) ==
  {[id |-> nextImageId + k - 1, product_id |-> r.product.id, image_url |-> r.files[k],
    is_primary |-> FALSE] : k \in 1..Len(r.files)}

\* Every image of a replacing upload marked primary.
NewImagesAllPrimary(r) ==
  {[id |-> nextImageId + k - 1, product_id |-> r.product.id, image_url |-> r.files[k],
    is_primary |-> (r.body.replace_images = "true")] : k \in 1..Len(r.files)}

\* req.files.map((file, index) => ({product_id, image_url,
\*   is_primary: index === 0 && req.body.replace_images === 'true'}))
NewImages(r) ==
  {[id |-> nextImageId + k - 1, product_id |-> r.product.id, image_url |-> r.files[k],
    is_primary |-> (k = 1 /\ r.body.replace_images = "true")] : k \in 1..Len(r.files)}

\* ProductImage.bulkCreate(productImages); the insert is refused when the
\* product was deleted meanwhile, and the catch block answers 500.
PutProductBulkCreate(s) ==
  LET r == creq[s] IN
  /\ r.pc = "bulk_create"
  /\ IF ProductKeyHolds(r.product.id)
       THEN /\ images' = images \cup NewImages(r)
            /\ nextImageId' = nextImageId + Len(r.files)
            /\ CPut(s, [r EXCEPT !.pc = PutProductNext(r, "bulk_create")])
       ELSE /\ CPut(s, CRespond(r, 500, "Server error"))
            /\ UNCHANGED <<images, nextImageId>>
  /\ UNCHANGED <<categories, products, files, nextCategoryId, nextFile, cstarted>>

\* Product.findByPk with its category and images, and the 200 response.
PutProductReload(s) ==
  LET r == creq[s] IN
  /\ r.pc = "reload"
  /\ CPut(s, [CRespond(r, 200, "") EXCEPT !.product = ProductByPk(r.product.id),
                                          !.existing = ImagesOf(r.product.id)])
  /\ UNCHANGED <<categories, products, images, files, nextCategoryId, nextImageId,
                 nextFile, cstarted>>

\* --------------------------------------------------- DELETE /api/products/:id
\* Product.findByPk
DeleteProductFind(r) ==
  LET p == ProductByPk(r.id) IN
  IF p = NoProduct THEN CRespond(r, 404, "Product not found")
  ELSE [r EXCEPT !.product = p, !.pc = "delete_find_images"]

StartDeleteProduct(s) ==
  \E h \in CatalogHeaders :
    \E id \in IF h = NoHeader THEN {1} ELSE {1, 2, 3} :
    LET r0 == CNewReq("DELETE /api/products/:id", h, id, NoCBody, NoUpload) IN
    CStart(s, r0, DeleteProductFind(r0))

\* The image files are left where they are.
DeleteProductKeepsFiles(stored, found) == stored

\* for (const image of images) if (fs.existsSync(imagePath)) fs.unlinkSync(imagePath)
DeleteProductUnlinks(stored, found) == Unlink(stored, {i.image_url : i \in found})

\* ProductImage.findAll({where: {product_id}}), then the files are unlinked.
DeleteProductFindImages(s) ==
  LET r == creq[s]
      found == ImagesOf(r.product.id)
  IN
  /\ r.pc = "delete_find_images"
  /\ files' = DeleteProductUnlinks(files, found)
  /\ CPut(s, [r EXCEPT !.existing = found, !.pc = "destroy_product"])
  /\ UNCHANGED <<categories, products, images, nextCategoryId, nextImageId, nextFile,
                 cstarted>>

\* product.destroy() and the 200 response.
DestroyProduct(s) ==
  LET r == creq[s] IN
  /\ r.pc = "destroy_product"
  /\ products' = {p \in products : p.id # r.product.id}
  /\ images' = OnDeleteProduct(r.product.id)
  /\ CPut(s, CRespond(r, 200, "Product deleted successfully"))
  /\ UNCHANGED <<categories, files, nextCategoryId, nextImageId, nextFile, cstarted>>

\* ================================================================== lists
\* Text is a sequence of characters, a query parameter a sequence of digits
\* (<<>> when the parameter is absent).
Lower(c) == CASE c = "W" -> "w" [] c = "A" -> "a" [] c = "B" -> "b" [] OTHER -> c
LowerText(t) == [k \in 1..Len(t) |-> Lower(t[k])]

\* Whether pat occurs in t as a contiguous run.
Contains(t, pat) ==
  \E k \in 0..(Len(t) - Len(pat)) : \A j \in 1..Len(pat) : t[k + j] = pat[j]

\* column ILIKE '%search%'
ILike(t, search) == Contains(LowerText(t), LowerText(search))

\* The collation's order of two names.
Rank(c) == CASE Lower(c) = "a" -> 1 [] Lower(c) = "b" -> 2 [] Lower(c) = "w" -> 3 [] OTHER -> 0
RECURSIVE TextLess(_, _)
TextLess(a, b) ==
  IF b = <<>> THEN FALSE
  ELSE IF a = <<>> THEN TRUE
  ELSE IF Rank(Head(a)) # Rank(Head(b)) THEN Rank(Head(a)) < Rank(Head(b))
  ELSE TextLess(Tail(a), Tail(b))

\* Number(s) and parseInt(s) of a string of decimal digits.
RECURSIVE ToNumber(_)
ToNumber(d) == IF d = <<>> THEN 0 ELSE 10 * ToNumber(SubSeq(d, 1, Len(d) - 1)) + d[Len(d)]
ParseInt(d) == ToNumber(d)

\* String(n) of a natural number
RECURSIVE NumberToString(_)
NumberToString(n) == IF n < 10 THEN <<n>> ELSE Append(NumberToString(n \div 10), n % 10)

\* const { page = 1, limit = 10 } = req.query
DefaultPage == 1
DefaultLimit == 10
PageOf(q) == IF q.page = <<>> THEN DefaultPage ELSE ToNumber(q.page)
LimitOf(q) == IF q.limit = <<>> THEN DefaultLimit ELSE ToNumber(q.limit)

\* limit: parseInt(limit), page: parseInt(page)
ParsedPage(q) == IF q.page = <<>> THEN DefaultPage ELSE ParseInt(q.page)
ParsedLimit(q) == IF q.limit = <<>> THEN DefaultLimit ELSE ParseInt(q.limit)

\* page * limit in place of (page - 1) * limit.
OffsetFromPage(q) == PageOf(q) * LimitOf(q)

\* const offset = (page - 1) * limit
Offset(q) == (PageOf(q) - 1) * LimitOf(q)

\* Math.floor in place of Math.ceil.
FloorDiv(count, limit) == count \div limit

\* Math.ceil(count / limit)
Ceil(count, limit) == (count + limit - 1) \div limit

\* The rows the datastore returns for OFFSET offset LIMIT limit, clamped to the
\* last rows when the offset is past the end.
PageRowsClamped(sorted, offset, limit) ==
  LET from == IF offset >= Len(sorted) /\ Len(sorted) > 0 THEN Len(sorted) - 1 ELSE offset
      to == IF from + limit < Len(sorted) THEN from + limit ELSE Len(sorted)
  IN SubSeq(sorted, from + 1, to)

\* The rows the datastore returns for OFFSET offset LIMIT limit.
PageRows(sorted, offset, limit) ==
  LET to == IF offset + limit < Len(sorted) THEN offset + limit ELSE Len(sorted)
  IN SubSeq(sorted, offset + 1, to)

\* The rows of `rows` in an order the datastore may return them in for ORDER BY
\* key: <<a, b>> \in before says a sorts strictly before b; ties come in any order.
RECURSIVE Orders(_, _)
Orders(rows, before) ==
  IF rows = {} THEN {<<>>}
  ELSE UNION {{<<m>> \o t : t \in Orders(rows \ {m}, before)} :
              m \in {x \in rows : \A y \in rows : <<y, x>> \notin before}}

Newest(rows) == {<<a, b>> \in rows \X rows : a.createdAt > b.createdAt}
Oldest(rows) == {<<a, b>> \in rows \X rows : a.createdAt < b.createdAt}
NameAsc(rows) == {<<a, b>> \in rows \X rows : TextLess(a.name, b.name)}
NameDesc(rows) == {<<a, b>> \in rows \X rows : TextLess(b.name, a.name)}

\* switch (sort): the default is newest first.
ProductOrders(rows, sort) ==
  CASE sort = "name-asc" -> Orders(rows, NameAsc(rows))
    [] sort = "name-desc" -> Orders(rows, NameDesc(rows))
    [] sort = "oldest" -> Orders(rows, Oldest(rows))
    [] OTHER -> Orders(rows, Newest(rows))

\* The tables the list routes read: the i-th product, category and message.
ListCategories == {[id |-> 1, slug |-> "a"], [id |-> 2, slug |-> "b"]}
ListProduct(i) ==
  [id |-> i, createdAt |-> i,
   name |-> IF i % 3 = 0 THEN <<"W", "a">> ELSE IF i % 3 = 1 THEN <<"a", "b">> ELSE <<"b">>,
   model_number |-> <<"b", "w">>,
   description |-> IF i % 2 = 0 THEN <<"A", "w">> ELSE <<>>,
   category_id |-> IF i % 4 = 0 THEN 0 ELSE 1 + (i % 2)]
ListMessage(i) == [id |-> i, createdAt |-> i, status |-> IF i % 2 = 0 THEN "read" ELSE "unread"]

NoQuery == [route |-> "none", header |-> NoHeader, category |-> "", slug |-> "",
            search |-> <<>>, sort |-> "", status |-> "", page |-> <<>>, limit |-> <<>>]
NoList == [status |-> 0, msg |-> "", rows |-> <<>>, total |-> 0, page |-> 0, limit |-> 0,
           totalPages |-> 0]
\* No page fetched: the pages fetched, their rows, the totals they reported.
NoScan == [page |-> 0, seen |-> <<>>, totals |-> {}]

\* res.json({success, rows, pagination: {total, page, limit, totalPages}})
ListResponse(q, matching, sorted) ==
  [status |-> 200, msg |-> "",
   rows |-> LET got == PageRows(sorted, ParseInt(NumberToString(Offset(q))), ParsedLimit(q))
            IN [k \in DOMAIN got |-> got[k].id],
   total |-> Cardinality(matching),
   page |-> ParsedPage(q), limit |-> ParsedLimit(q),
   totalPages |-> Ceil(Cardinality(matching), LimitOf(q))]

ListError(status, msg) == [NoList EXCEPT !.status = status, !.msg = msg]

\* GET /api/products: the category join, the search filter, the order.
ProductMatches(p, q) ==
  /\ q.category # "" =>
       \E c \in ListCategories : c.id = p.category_id /\ c.slug = q.category
  /\ q.search # <<>> =>
       \/ ILike(p.name, q.search)
       \/ ILike(p.model_number, q.search)
       \/ ILike(p.description, q.search)

\* Strings of digits that name a positive integer.
Params == {<<>>, <<1, 0>>} \cup {<<d>> : d \in 1..MaxDigit} \cup {<<0, d>> : d \in 1..MaxDigit}

\* The list requests a client sends.
ProductQueries ==
  {[NoQuery EXCEPT !.route = "GET /api/products", !.category = cat, !.search = search,
                   !.sort = sort, !.page = page, !.limit = limit] :
     cat \in {"", "a", "zz"}, search \in {<<>>, <<"W">>, <<"a", "b">>},
     sort \in {"", "name-asc", "name-desc", "oldest"}, page \in Params, limit \in Params}
CategoryProductQueries ==
  {[NoQuery EXCEPT !.route = "GET /api/categories/:slug/products", !.slug = slug,
                   !.page = page, !.limit = limit] :
     slug \in {"a", "b", "zz"}, page \in Params, limit \in Params}
MessageQueries ==
  {[NoQuery EXCEPT !.route = "GET /api/contact/messages", !.header = h, !.status = status,
                   !.page = page, !.limit = limit] :
     h \in CatalogHeaders, status \in {"", "unread"}, page \in Params, limit \in Params}

\* The request received has not been answered.
Pending(route) == lq.route = route /\ lresp = NoList

GetProducts ==
  LET matching == {p \in lprods : ProductMatches(p, lq)} IN
  /\ Pending("GET /api/products")
  /\ \E sorted \in ProductOrders(matching, lq.sort) :
       lresp' = ListResponse(lq, matching, sorted)
  /\ UNCHANGED <<lprods, lmsgs, lq, scan, userVars, catalogVars, contactVars>>

\* GET /api/categories/:slug/products
GetCategoryProducts ==
  LET found == {c \in ListCategories : c.slug = lq.slug}
      matching == {p \in lprods : \E c \in found : p.category_id = c.id}
  IN
  /\ Pending("GET /api/categories/:slug/products")
  /\ IF found = {} THEN lresp' = ListError(404, "Category not found")
     ELSE \E sorted \in Orders(matching, Newest(matching)) :
            lresp' = ListResponse(lq, matching, sorted)
  /\ UNCHANGED <<lprods, lmsgs, lq, scan, userVars, catalogVars, contactVars>>

\* GET /api/contact/messages, behind auth and admin
GetMessages ==
  LET m == RunChain("GET /api/contact/messages", lq.header)
      matching == {x \in lmsgs : lq.status # "" => x.status = lq.status}
  IN
  /\ Pending("GET /api/contact/messages")
  /\ IF ~m.passed THEN lresp' = ListError(m.status, m.msg)
     ELSE \E sorted \in Orders(matching, Newest(matching)) :
            lresp' = ListResponse(lq, matching, sorted)
  /\ UNCHANGED <<lprods, lmsgs, lq, scan, userVars, catalogVars, contactVars>>


\* GET /api/products for page 1, then for each following page up to the
\* totalPages of the last answer, with the same filters, sort and limit.  Each
\* request is a query of its own over the unchanged table.
GetNextPage ==
  LET q == [lq EXCEPT !.page = NumberToString(scan.page + 1)]
      matching == {p \in lprods : ProductMatches(p, q)}
  IN
  /\ lq.route = "GET /api/products"
  /\ scan.page = 0 \/ scan.page < lresp.totalPages
  /\ \E sorted \in ProductOrders(matching, q.sort) :
       LET r == ListResponse(q, matching, sorted) IN
       /\ lresp' = r
       /\ scan' = [page |-> scan.page + 1, seen |-> scan.seen \o r.rows,
                   totals |-> scan.totals \cup {r.total}]
  /\ UNCHANGED <<lprods, lmsgs, lq, userVars, catalogVars, contactVars>>

\* ================================================================ contact
\* A row of contact_messages: the attributes the ContactMessage model declares.
NoMessage == [id |-> 0, name |-> "", email |-> "", phone |-> "", message |-> "",
              is_read |-> FALSE]
NoContactBody == [name |-> "", email |-> "", phone |-> "", subject |-> "", message |-> ""]
NoContact == [header |-> NoHeader, body |-> NoContactBody, status |-> 0, msg |-> "",
              out |-> NoMessage]

\* The submissions a visitor sends: with and without a phone number, and with a
\* field missing or an email that is none.
ContactBodies ==
  {[name |-> "Ann", email |-> "bob@example.com", phone |-> ph, subject |-> "Strap",
    message |-> "Do you sell straps?"] : ph \in {"", "555"}}
  \cup {[name |-> n, email |-> e, phone |-> "", subject |-> sub, message |-> m] :
          n \in {"", "Ann"}, e \in {"bob", "bob@example.com"}, sub \in {"", "Strap"},
          m \in {"", "Do you sell straps?"}}

\* Any visitor: no header, the administrator's token, a token signed with
\* another key.
ContactHeaders ==
  {NoHeader, Bearer(SignedToken(Payload(SeedAdmin))), Bearer(ForgedToken(Payload(SeedAdmin)))}

\* body('name').notEmpty(), body('email').isEmail(), body('subject').notEmpty(),
\* body('message').notEmpty()
ValidContact(b) == b.name # "" /\ IsEmail(b.email) /\ b.subject # "" /\ b.message # ""

\* ContactMessage.create({name, email, phone, subject, message, status: 'unread'}):
\* the row holds the attributes of the model, so subject and status are not
\* stored and is_read takes its default, false.
NewMessage(b) ==
  [id |-> nextMessageId, name |-> b.name, email |-> b.email, phone |-> b.phone,
   message |-> b.message, is_read |-> FALSE]

\* The stored row returned in the response.
ContactCreatedEcho(r, m) ==
  [r EXCEPT !.status = 201, !.msg = "Your message has been sent successfully. We will get back to you soon.", !.out = m]

\* res.status(201).json({success: true, message: 'Your message has been sent ...'})
ContactCreated(r, m) ==
  [r EXCEPT !.status = 201, !.msg = "Your message has been sent successfully. We will get back to you soon."]

\* POST /api/contact: no middleware, validation, create, the acknowledgment.
PostContact ==
  /\ posted < MaxContact
  /\ \E h \in ContactHeaders, b \in ContactBodies :
       LET r == [NoContact EXCEPT !.header = h, !.body = b]
           row == NewMessage(b)
       IN
       IF ~RunChain("POST /api/contact", h).passed
         THEN /\ contact' = [r EXCEPT !.status = RunChain("POST /api/contact", h).status]
              /\ UNCHANGED <<messages, nextMessageId>>
       ELSE IF ~ValidContact(b)
         THEN /\ contact' = [r EXCEPT !.status = 400, !.msg = "errors"]
              /\ UNCHANGED <<messages, nextMessageId>>
       ELSE /\ messages' = messages \cup {row}
            /\ nextMessageId' = nextMessageId + 1
            /\ contact' = ContactCreated(r, row)
  /\ posted' = posted + 1
  /\ UNCHANGED <<userVars, catalogVars, listVars, mreq, mstarted>>

\* ------------------------------------------- /api/contact/messages/:id
\* The value of a property the instance does not have.
Undefined == "undefined"

\* instance.attr: the model defines a property for each attribute it declares.
Attr(m, a) == IF a \in DOMAIN m THEN m[a] ELSE Undefined

\* instance.update(values): the attributes the model declares are set and
\* saved, the other keys of values are ignored.
MessageUpdate(row, values) ==
  [a \in DOMAIN row |-> IF a \in DOMAIN values THEN values[a] ELSE row[a]]

\* ContactMessage.findByPk
MessageByPk(id) == IF \E m \in messages : m.id = id
                   THEN CHOOSE m \in messages : m.id = id ELSE NoMessage

NoMessageRequest ==
  [route |-> "none", header |-> NoHeader, id |-> 0, body |-> "", pc |-> "idle", ran |-> {},
   status |-> 0, msg |-> "", message |-> NoMessage, values |-> <<>>]

\* The administrator, the user bob, and no token.
MessageHeaders ==
  {NoHeader, Bearer(SignedToken(Payload(SeedAdmin))), Bearer(SignedToken(Payload(Bob)))}

\* req.body.status: absent, the two states of a message, and another word.
MessageStatuses == {"", "read", "unread", "archived"}

\* The request after auth and admin.
NewMessageRequest(route, h, id, body) ==
  LET m == RunChain(route, h) IN
  [NoMessageRequest EXCEPT !.route = route, !.header = h, !.id = id, !.body = body,
                           !.ran = m.ran, !.status = m.status, !.msg = m.msg,
                           !.pc = IF m.passed THEN "handler" ELSE "done"]

MessageRespond(r, status, msg) == [r EXCEPT !.pc = "done", !.status = status, !.msg = msg]

\* A request arrives when the last one has been answered.
StartMessageRequest(r0, r1) ==
  /\ mreq.pc \in {"idle", "done"}
  /\ mstarted < MaxMessageRequests
  /\ mreq' = IF r0.pc = "done" THEN r0 ELSE r1
  /\ mstarted' = mstarted + 1
  /\ UNCHANGED <<userVars, catalogVars, listVars, messages, nextMessageId, contact, posted>>

\* GET /api/contact/messages/:id: findByPk, 404, and the message marked read
\* when its status is 'unread'.
GetMessageFind(r) ==
  LET m == MessageByPk(r.id) IN
  IF m = NoMessage THEN MessageRespond(r, 404, "Message not found")
  ELSE IF Attr(m, "status") = "unread"
    THEN [r EXCEPT !.message = m, !.values = [status |-> "read"], !.pc = "update_message"]
    ELSE [MessageRespond(r, 200, "") EXCEPT !.message = m]

StartGetMessage ==
  \E h \in MessageHeaders, id \in 1..MaxContact :
    LET r0 == NewMessageRequest("GET /api/contact/messages/:id", h, id, "") IN
    StartMessageRequest(r0, GetMessageFind(r0))

\* PUT /api/contact/messages/:id: findByPk, 404, then
\* message.update({status: req.body.status || message.status})
PutMessageFind(r) ==
  LET m == MessageByPk(r.id) IN
  IF m = NoMessage THEN MessageRespond(r, 404, "Message not found")
  ELSE [r EXCEPT !.message = m, !.pc = "update_message",
                 !.values = [status |-> IF r.body # "" THEN r.body ELSE Attr(m, "status")]]

StartPutMessage ==
  \E h \in MessageHeaders, id \in 1..MaxContact :
    \E b \in IF h = NoHeader THEN {""} ELSE MessageStatuses :
    LET r0 == NewMessageRequest("PUT /api/contact/messages/:id", h, id, b) IN
    StartMessageRequest(r0, PutMessageFind(r0))

\* message.update(values) and the 200 response with the message.
SaveMessage ==
  /\ mreq.pc = "update_message"
  /\ messages' = {IF m.id = mreq.message.id THEN MessageUpdate(m, mreq.values) ELSE m :
                  m \in messages}
  /\ mreq' = [MessageRespond(mreq, 200, "") EXCEPT
               !.message = MessageUpdate(mreq.message, mreq.values)]
  /\ UNCHANGED <<userVars, catalogVars, listVars, nextMessageId, contact, posted, mstarted>>

\* DELETE /api/contact/messages/:id: findByPk, 404, then message.destroy()
DeleteMessageFind(r) ==
  LET m == MessageByPk(r.id) IN
  IF m = NoMessage THEN MessageRespond(r, 404, "Message not found")
  ELSE [r EXCEPT !.message = m, !.pc = "destroy_message"]

StartDeleteMessage ==
  \E h \in MessageHeaders, id \in 1..MaxContact :
    LET r0 == NewMessageRequest("DELETE /api/contact/messages/:id", h, id, "") IN
    StartMessageRequest(r0, DeleteMessageFind(r0))

DestroyMessage ==
  /\ mreq.pc = "destroy_message"
  /\ messages' = {m \in messages : m.id # mreq.message.id}
  /\ mreq' = MessageRespond(mreq, 200, "Message deleted successfully")
  /\ UNCHANGED <<userVars, catalogVars, listVars, nextMessageId, contact, posted, mstarted>>

\* ============================================================= the server
\* No contact message yet.
InitNoContact ==
  /\ messages = {}
  /\ nextMessageId = 1
  /\ contact = NoContact
  /\ posted = 0
  /\ mreq = NoMessageRequest
  /\ mstarted = 0

\* After seedDatabase(): the seeded administrator, no request in flight.
InitUsers ==
  /\ users = {SeedAdmin}
  /\ nextUserId = 2
  /\ tokens = {}
  /\ req = [s \in Slots |-> Idle]
  /\ started = 0

\* The seeded catalog.
InitCatalog ==
  /\ categories = SeedCategories
  /\ products = SeedProducts
  /\ images = SeedImages
  /\ files = {Placeholder}
  /\ nextCategoryId = FirstNewCategoryId
  /\ nextImageId = FirstNewImageId
  /\ nextFile = Placeholder + 1
  /\ creq = [s \in Slots |-> CIdle]
  /\ cstarted = 0

\* The store after the administrator has logged in and created the user bob
\* and the category sport-watch with an image.
SportWatch == [id |-> FirstNewCategoryId, name |-> "Sport Watch", slug |-> "sport-watch",
               description |-> "", image_url |-> Placeholder + 1]
InitEdited ==
  /\ users = {SeedAdmin, Bob}
  /\ nextUserId = 3
  /\ tokens = {Payload(SeedAdmin)}
  /\ req = [s \in Slots |-> Idle]
  /\ started = 0
  /\ categories = SeedCategories \cup {SportWatch}
  /\ products = SeedProducts
  /\ images = SeedImages
  /\ files = {Placeholder, Placeholder + 1}
  /\ nextCategoryId = FirstNewCategoryId + 1
  /\ nextImageId = FirstNewImageId
  /\ nextFile = Placeholder + 2
  /\ creq = [s \in Slots |-> CIdle]
  /\ cstarted = 0

\* No list request yet.
InitNoList ==
  /\ lprods = {}
  /\ lmsgs = {}
  /\ lq = NoQuery
  /\ lresp = NoList
  /\ scan = NoScan
  /\ InitNoContact

\* Tables of any size up to the bounds, and a list request received.
InitTables ==
  /\ \E n \in 0..MaxProducts : lprods = {ListProduct(i) : i \in 1..n}
  /\ \E n \in 0..MaxMessages : lmsgs = {ListMessage(i) : i \in 1..n}
  /\ lq \in ProductQueries \cup CategoryProductQueries \cup MessageQueries
  /\ lresp = NoList
  /\ scan = NoScan
  /\ InitNoContact

\* A table of products and the first page of a listing requested.
InitPages ==
  /\ \E n \in 0..MaxProducts : lprods = {ListProduct(i) : i \in 1..n}
  /\ lmsgs = {}
  /\ lq \in {q \in ProductQueries : q.page = <<>>}
  /\ lresp = NoList
  /\ scan = NoScan
  /\ InitNoContact

\* The step of a request in flight: its next datastore operation.
UserStep(s) ==
  \/ CreateCheckEmail(s)
  \/ CreateUser(s)
  \/ PutCheckUsername(s)
  \/ PutCheckEmail(s)
  \/ UpdateUser(s)
  \/ DeleteCount(s)
  \/ DestroyUser(s)
  \/ UpdatePassword(s)

\* The user and auth routes, called with tokens the server issued.  A request
\* arrives (the middleware chain and the handler up to its first await), or a
\* request in flight takes its next step.
NextUsers ==
  \E s \in Slots :
    \/ StartLogin(s, MaxStarted)
    \/ StartMe(s, IssuedHeaders, MaxStarted)
    \/ StartGetUsers(s, IssuedHeaders, MaxStarted)
    \/ StartGetUser(s, IssuedHeaders, MaxStarted)
    \/ StartPostUser(s, IssuedHeaders, MaxStarted)
    \/ StartRegister(s, IssuedHeaders, MaxStarted)
    \/ StartPutUser(s, IssuedHeaders, MaxStarted)
    \/ StartDeleteUser(s, IssuedHeaders, MaxStarted)
    \/ StartChangePassword(s, IssuedHeaders, MaxStarted)
    \/ UserStep(s)

\* Login with its jwt.sign callback, next to the creation of users.
NextSign ==
  \E s \in Slots :
    \/ StartLoginSigning(s, MaxStarted)
    \/ SignCallback(s)
    \/ StartPostUser(s, IssuedHeaders, MaxStarted)
    \/ CreateCheckEmail(s)
    \/ CreateUser(s)

\* The same routes, called with any Authorization header.
NextAuth ==
  \E s \in Slots :
    \/ StartLogin(s, MaxProbes)
    \/ StartMe(s, AnyHeaders, MaxProbes)
    \/ StartGetUsers(s, AnyHeaders, MaxProbes)
    \/ StartGetUser(s, AnyHeaders, MaxProbes)
    \/ StartPostUser(s, AnyHeaders, MaxProbes)
    \/ StartRegister(s, AnyHeaders, MaxProbes)
    \/ StartPutUser(s, AnyHeaders, MaxProbes)
    \/ StartDeleteUser(s, AnyHeaders, MaxProbes)
    \/ StartChangePassword(s, AnyHeaders, MaxProbes)
    \/ UserStep(s)

\* The category and product routes.
NextCatalog ==
  \E s \in Slots :
    \/ StartPostCategory(s)
    \/ CreateCategory(s)
    \/ StartDeleteCategory(s)
    \/ DeleteCategoryCount(s)
    \/ DestroyCategory(s)
    \/ StartPostProduct(s)
    \/ StartPutProduct(s)
    \/ PutProductCheckCategory(s)
    \/ UpdateProduct(s)
    \/ PutProductFindImages(s)
    \/ PutProductDestroyImages(s)
    \/ PutProductBulkCreate(s)
    \/ PutProductReload(s)

\* The product routes alone.
NextProducts ==
  \E s \in Slots :
    \/ StartPostProduct(s)
    \/ StartPutProduct(s)
    \/ PutProductCheckCategory(s)
    \/ UpdateProduct(s)
    \/ PutProductFindImages(s)
    \/ PutProductDestroyImages(s)
    \/ PutProductBulkCreate(s)
    \/ PutProductReload(s)
    \/ StartDeleteProduct(s)
    \/ DeleteProductFindImages(s)
    \/ DestroyProduct(s)

\* The category routes alone.
NextCategories ==
  \E s \in Slots :
    \/ StartPostCategory(s)
    \/ CreateCategory(s)
    \/ StartPutCategory(s)
    \/ PutCategoryCheckSlug(s)
    \/ UpdateCategory(s)
    \/ StartDeleteCategory(s)
    \/ DeleteCategoryCount(s)
    \/ DestroyCategory(s)

\* The three updating routes, at most MaxUpdates requests in all.
NextUpdates ==
  \E s \in Slots :
    \/ started + cstarted < MaxUpdates /\ StartPutUser(s, AdminHeaders, MaxUpdates)
    \/ PutCheckUsername(s)
    \/ PutCheckEmail(s)
    \/ UpdateUser(s)
    \/ started + cstarted < MaxUpdates /\ StartPutCategory(s)
    \/ PutCategoryCheckSlug(s)
    \/ UpdateCategory(s)
    \/ started + cstarted < MaxUpdates /\ StartPutProduct(s)
    \/ PutProductCheckCategory(s)
    \/ UpdateProduct(s)
    \/ PutProductFindImages(s)
    \/ PutProductDestroyImages(s)
    \/ PutProductBulkCreate(s)
    \/ PutProductReload(s)

\* The list routes answer the request received: each is a single query over
\* the tables.
NextList ==
  \/ GetProducts
  \/ GetCategoryProducts
  \/ GetMessages

Init == InitUsers /\ InitCatalog /\ InitNoList
Spec == Init /\ [][NextUsers]_vars
SpecAuth == Init /\ [][NextAuth]_vars
SpecSign == Init /\ [][NextSign]_vars /\ WF_vars(NextSign)
SpecCatalog == Init /\ [][NextCatalog]_vars
SpecCategories == Init /\ [][NextCategories]_vars
SpecProducts == Init /\ [][NextProducts]_vars
NextContact ==
  \/ PostContact
  \/ StartGetMessage
  \/ StartPutMessage
  \/ SaveMessage
  \/ StartDeleteMessage
  \/ DestroyMessage
SpecContact == Init /\ [][NextContact]_vars
InitUpdates == InitEdited /\ InitNoList
SpecUpdates == InitUpdates /\ [][NextUpdates]_vars
InitList == InitUsers /\ InitCatalog /\ InitTables
SpecList == InitList /\ [][NextList]_vars
NextPages == GetNextPage
InitWalk == InitUsers /\ InitCatalog /\ InitPages
SpecPages == InitWalk /\ [][NextPages]_vars

\* The whole server: every route, with the administrator and a user who is no
\* administrator both holding a token.  The server has answered requests
\* before that left the seeded tables as they were, so that it receives
\* MaxServerRequests more in all, spread over the groups of routes in any way;
\* a request for the list of contact messages may be one of them.
InitServer ==
  /\ users = {SeedAdmin, Bob}
  /\ nextUserId = 3
  /\ tokens = {Payload(SeedAdmin), Payload(Bob)}
  /\ req = [s \in Slots |-> Idle]
  /\ categories = SeedCategories
  /\ products = SeedProducts
  /\ images = SeedImages
  /\ files = {Placeholder}
  /\ nextCategoryId = FirstNewCategoryId
  /\ nextImageId = FirstNewImageId
  /\ nextFile = Placeholder + 1
  /\ creq = [s \in Slots |-> CIdle]
  /\ messages = {}
  /\ nextMessageId = 1
  /\ contact = NoContact
  /\ mreq = NoMessageRequest
  /\ lprods = {}
  /\ lmsgs = {ListMessage(i) : i \in 1..MaxMessages}
  /\ lresp = NoList
  /\ scan = NoScan
  /\ \E u \in 0..MaxStarted, c \in 0..MaxCatalogStarted, m \in 0..MaxMessageRequests,
        p \in 0..MaxContact, l \in 0..1 :
       /\ u + c + m + p + l = MaxServerRequests
       /\ started = MaxStarted - u
       /\ cstarted = MaxCatalogStarted - c
       /\ mstarted = MaxMessageRequests - m
       /\ posted = MaxContact - p
       /\ lq \in IF l = 0 THEN {NoQuery}
                 ELSE {q \in MessageQueries :
                         q.status = "" /\ q.page = <<>> /\ q.limit = <<>>}

NextServer ==
  \/ \E s \in Slots :
       \/ StartLogin(s, MaxStarted)
       \/ StartMe(s, IssuedHeaders, MaxStarted)
       \/ StartGetUsers(s, IssuedHeaders, MaxStarted)
       \/ StartGetUser(s, IssuedHeaders, MaxStarted)
       \/ StartPostUser(s, IssuedHeaders, MaxStarted)
       \/ StartRegister(s, IssuedHeaders, MaxStarted)
       \/ StartPutUser(s, IssuedHeaders, MaxStarted)
       \/ StartDeleteUser(s, IssuedHeaders, MaxStarted)
       \/ StartChangePassword(s, IssuedHeaders, MaxStarted)
       \/ UserStep(s)
       \/ StartPostCategory(s)
       \/ CreateCategory(s)
       \/ StartPutCategory(s)
       \/ PutCategoryCheckSlug(s)
       \/ UpdateCategory(s)
       \/ StartDeleteCategory(s)
       \/ DeleteCategoryCount(s)
       \/ DestroyCategory(s)
       \/ StartPostProduct(s)
       \/ StartPutProduct(s)
       \/ PutProductCheckCategory(s)
       \/ UpdateProduct(s)
       \/ PutProductFindImages(s)
       \/ PutProductDestroyImages(s)
       \/ PutProductBulkCreate(s)
       \/ PutProductReload(s)
       \/ StartDeleteProduct(s)
       \/ DeleteProductFindImages(s)
       \/ DestroyProduct(s)
  \/ PostContact
  \/ GetMessages
  \/ StartGetMessage
  \/ StartPutMessage
  \/ SaveMessage
  \/ StartDeleteMessage
  \/ DestroyMessage

SpecServer == InitServer /\ [][NextServer]_vars

\* ================================================================ claims
\* What the claims mean by a header that carries no token, and by a token that
\* verifies: signed with the server's secret and not expired.
CarriesNoToken(h) == ~h.present \/ h.token = EmptyToken
Verifies(h) == h.present /\ h.token.sig = "secret" /\ ~h.token.expired
Stored(id) == \E u \in users : u.id = id

\* C1: in every reachable state at least one user has is_admin = true.
\* The code guards only DELETE: PUT /api/users/:id with is_admin = false on the
\* only admin, or two overlapping DELETEs of the last two admins, leave none.
C1_AlwaysAnAdmin == \E u \in users : u.is_admin

\* C2: an admin's DELETE /api/users/:id on a stored admin user is answered 400
\* 'Cannot delete the last admin user', with the users table unchanged, exactly
\* when (at the handler's count) that user is the only admin; otherwise, and
\* for a target that is not an admin, the handler goes on to destroy the row
\* and answers 200 with the row gone.
C2_DeleteStep(s) ==
  LET r == req[s]
      r2 == req'[s]
      only == \A u \in users : u.is_admin => u.id = r.id
      targetIsAdmin == \E u \in users : u.id = r.id /\ u.is_admin
  IN
  /\ (r.pc = "count" /\ r2 # r /\ targetIsAdmin) =>
       /\ users' = users
       /\ only <=> (r2.pc = "done" /\ r2.status = 400
                    /\ r2.msg = "Cannot delete the last admin user")
       /\ ~only => r2.pc = "destroy"
  /\ (r.pc = "destroy" /\ r2 # r) =>
       /\ r2.pc = "done" /\ r2.status = 200
       /\ users' = {u \in users : u.id # r.id}
  /\ (r.pc \in {"idle", "done"} /\ r2 # r /\ r2.route = "DELETE /api/users/:id"
      /\ "handler" \in r2.ran /\ \E u \in users : u.id = r2.id /\ ~u.is_admin) =>
       /\ r2.pc = "destroy"
       /\ users' = users
C2_DeleteLastAdmin == [][\A s \in Slots : C2_DeleteStep(s)]_vars

\* Both outcomes in one state: a DELETE of an admin answered 200 while another
\* admin existed, and a DELETE of the remaining admin answered 400.
C2_Witness ==
  \E s, t \in Slots :
    /\ req[s].route = "DELETE /api/users/:id" /\ req[s].pc = "done"
    /\ req[s].status = 200 /\ req[s].snap.is_admin /\ ~Stored(req[s].id)
    /\ req[t].route = "DELETE /api/users/:id" /\ req[t].pc = "done"
    /\ req[t].status = 400 /\ req[t].msg = "Cannot delete the last admin user"
    /\ Stored(req[t].id)

\* C3 as stated: under any interleaving of DELETE /api/categories/:id with the
\* product writes, no category row is destroyed in a step at whose start some
\* product's category_id references it.  The handler counts, then destroys: a
\* PUT /api/products/:id that moves a product into the category between the two
\* is not seen.
C3_NeverDestroyedWhileReferenced ==
  [][\A c \in categories :
       (\A d \in categories' : d.id # c.id) =>
         \A p \in products : p.category_id # c.id]_vars

\* C3 as amended: a category row is destroyed only by a DELETE whose count of
\* the referencing products was zero, and in every reachable state every
\* product's category_id is null or the id of an existing category: a product
\* that came to reference the category after the count is detached with it.
C3_DeleteStep(s) ==
  \A c \in categories :
    (\A d \in categories' : d.id # c.id) =>
      \E t \in Slots :
        /\ creq[t].route = "DELETE /api/categories/:id" /\ creq[t].id = c.id
        /\ creq[t].pc = "destroy_category" /\ creq[t].n = 0
        /\ creq'[t].pc = "done"
C3_Referenced ==
  \A p \in products : p.category_id = 0 \/ \E c \in categories : c.id = p.category_id
C3_NoDanglingCategory ==
  C3_Referenced /\ [][(\A s \in Slots : C3_DeleteStep(s)) /\ C3_Referenced']_vars

\* A product whose PUT to category 5 was answered 200 and which is detached,
\* category 5 having been destroyed after the update.
C3_Witness ==
  \E s, t \in Slots :
    /\ creq[s].route = "PUT /api/products/:id" /\ creq[s].pc = "done"
    /\ creq[s].status = 200 /\ creq[s].body.category_id = 5
    /\ creq[t].route = "DELETE /api/categories/:id" /\ creq[t].pc = "done"
    /\ creq[t].status = 200 /\ creq[t].id = 5
    /\ \A c \in categories : c.id # 5
    /\ \E p \in products : p.id = creq[s].id /\ p.category_id = 0

\* C4: DELETE /api/categories/:id on an existing category that n >= 1 products
\* reference (at the handler's count) is answered 400 with a message naming n,
\* the category row and its image file left in place; with n = 0 the image file,
\* if one is stored, is removed, the row is destroyed and the answer is 200.
C4_DeleteStep(s) ==
  LET r == creq[s]
      r2 == creq'[s]
      n == Cardinality({p \in products : p.category_id = r.category.id})
  IN
  /\ (r.pc = "count_products" /\ r2 # r /\ n >= 1) =>
       /\ r2.pc = "done" /\ r2.status = 400 /\ r2.n = n
       /\ r2.msg = "Cannot delete category with n products"
       /\ categories' = categories /\ files' = files
  /\ (r.pc = "count_products" /\ r2 # r /\ n = 0) =>
       /\ r2.pc = "destroy_category"
       /\ r.category.image_url # NoFile => r.category.image_url \notin files'
  /\ (r.pc = "destroy_category" /\ r2 # r) =>
       /\ r2.pc = "done" /\ r2.status = 200
       /\ r2.msg = "Category deleted successfully"
       /\ \A c \in categories' : c.id # r.category.id
C4_DeleteCategory == [][\A s \in Slots : C4_DeleteStep(s)]_vars

\* Both outcomes in one state: a DELETE answered 400 naming the products of a
\* category that is still stored, and a DELETE answered 200 for a category with
\* a stored image, the row and the file gone.
C4_Witness ==
  \E s, t \in Slots :
    /\ creq[s].route = "DELETE /api/categories/:id" /\ creq[s].pc = "done"
    /\ creq[s].status = 400 /\ creq[s].n >= 1
    /\ \E c \in categories : c.id = creq[s].id
    /\ creq[t].route = "DELETE /api/categories/:id" /\ creq[t].pc = "done"
    /\ creq[t].status = 200 /\ creq[t].category.image_url # NoFile
    /\ creq[t].category.image_url \notin files
    /\ \A c \in categories : c.id # creq[t].id

\* C5: auth answers 401 'No token, authorization denied' without a token and
\* 401 'Token is not valid' for a token that does not verify, and then nothing
\* downstream runs; only for a token that verifies does it attach the token's
\* claims and call next, once.
C5_AuthOutcome(r) ==
  /\ CarriesNoToken(r.header) =>
       /\ r.status = 401 /\ r.msg = "No token, authorization denied" /\ r.pc = "done"
       /\ r.nexts = 0 /\ r.ran = {"auth"} /\ r.user = NoClaims /\ r.snap = NoUser
  /\ (~CarriesNoToken(r.header) /\ ~Verifies(r.header)) =>
       /\ r.status = 401 /\ r.msg = "Token is not valid" /\ r.pc = "done"
       /\ r.nexts = 0 /\ r.ran = {"auth"} /\ r.user = NoClaims /\ r.snap = NoUser
  /\ Verifies(r.header) =>
       /\ r.nexts = 1 /\ r.user = r.header.token.user
       /\ r.ran \cap {"admin", "handler"} # {}
  /\ (r.nexts = 1 \/ r.ran # {"auth"}) => Verifies(r.header)
C5_AuthGate ==
  \A s \in Slots : "auth" \in req[s].ran => C5_AuthOutcome(req[s])

\* A request with a verified token that auth let through to the handler with
\* its claims attached.
C5_Witness ==
  \E s \in Slots :
    /\ "auth" \in req[s].ran /\ Verifies(req[s].header)
    /\ req[s].user.id # 0 /\ req[s].nexts = 1 /\ "handler" \in req[s].ran

\* C6: admin lets the request through to the handler iff the attached claims
\* have is_admin = true; otherwise it answers 403 and the handler never runs.
C6_AdminGate ==
  \A s \in Slots :
    LET r == req[s] IN
    "admin" \in r.ran =>
      /\ "handler" \in r.ran <=> r.user.is_admin
      /\ ~r.user.is_admin =>
           /\ r.status = 403 /\ r.msg = "Access denied. Admin privileges required."
           /\ r.pc = "done" /\ r.snap = NoUser /\ r.out = NoClaims

\* A verified non-admin answered 403 by admin.
C6_Witness ==
  \E s \in Slots :
    /\ "admin" \in req[s].ran /\ req[s].user.id # 0 /\ ~req[s].user.is_admin
    /\ req[s].status = 403

\* C7: GET /api/auth/me answers {success, user} for the token's user when the
\* bearer token verifies, and 401 when it does not.  The route is registered
\* without auth, so the handler reads req.user.id of undefined and answers 500.
C7_MeAuthenticated ==
  \A s \in Slots :
    LET r == req[s] IN
    (r.route = "GET /api/auth/me" /\ r.pc = "done") =>
      /\ (Verifies(r.header) /\ Stored(r.header.token.user.id)) =>
           r.status = 200 /\ r.out.id = r.header.token.user.id
      /\ ~Verifies(r.header) => r.status = 401

\* C8: POST /api/auth/register creates a user only for a request that carries a
\* verified admin identity.  The route is registered without auth and admin.
C8_RegisterAdminOnly ==
  \A s \in Slots :
    LET r == req[s] IN
    (r.route = "POST /api/auth/register" /\ r.pc = "done" /\ r.status = 200) =>
      Verifies(r.header) /\ r.header.token.user.is_admin

\* The list requests that reach their query: the category of
\* /api/categories/:slug/products exists, the caller of /api/contact/messages
\* is an administrator.
C9_Queried ==
  \/ lq.route = "GET /api/products"
  \/ lq.route = "GET /api/categories/:slug/products"
       /\ \E c \in ListCategories : c.slug = lq.slug
  \/ lq.route = "GET /api/contact/messages"
       /\ Verifies(lq.header) /\ lq.header.token.user.is_admin

C10_Filtered ==
  CASE lq.route = "GET /api/products" ->
         {p \in lprods :
            /\ lq.category # "" =>
                 \E c \in ListCategories : c.slug = lq.category /\ c.id = p.category_id
            /\ lq.search # <<>> =>
                 \E f \in {p.name, p.model_number, p.description} : ILike(f, lq.search)}
    [] lq.route = "GET /api/categories/:slug/products" ->
         {p \in lprods : \E c \in ListCategories : c.slug = lq.slug /\ c.id = p.category_id}
    [] lq.route = "GET /api/contact/messages" ->
         {m \in lmsgs : lq.status # "" => m.status = lq.status}
    [] OTHER -> {}

C11_Matching == {p \in lprods : ProductMatches(p, lq)}

C11_Tie ==
  \E a, b \in C11_Matching :
    /\ a.id # b.id
    /\ IF lq.sort \in {"name-asc", "name-desc"} THEN a.name = b.name
       ELSE a.createdAt = b.createdAt

C12_Response(r) == <<r.status, r.msg, r.token, r.out>>

\* A step that answers a POST /api/auth/login in slot s with a username and a
\* password in its body.
C12_LoginStep(s) ==
  LET r2 == req'[s]
      known == {u \in users : u.username = r2.body.username}
      right == {u \in known : u.password = Hash(r2.body.password)}
  IN
  (r2 # req[s] /\ r2.route = "POST /api/auth/login") =>
    /\ r2.pc = "done"
    /\ \A u \in right :
         /\ r2.status = 200
         /\ r2.token = [id |-> u.id, username |-> u.username, email |-> u.email,
                        is_admin |-> u.is_admin]
    /\ right = {} =>
         C12_Response(r2) = <<401, "Invalid credentials", NoClaims, NoClaims>>

\* C12: a login with the correct password of an existing user returns a token
\* whose claims are that user's stored id, username, email and is_admin; a login
\* with an unknown username and one with a known username and a wrong password
\* get the same response, 401 'Invalid credentials' and no token.
C12_Login == [][\A s \in Slots : C12_LoginStep(s)]_vars

\* A login answered with the token of a stored non-administrator, next to a
\* login under a stored username refused for its password.
C12_Witness ==
  \E s, t \in Slots :
    /\ req[s].route = "POST /api/auth/login" /\ req[s].status = 200
    /\ \E u \in users : Payload(u) = req[s].token /\ ~u.is_admin
    /\ req[t].route = "POST /api/auth/login" /\ req[t].status = 401
    /\ req[t].msg = "Invalid credentials"
    /\ \E u \in users : u.username = req[t].body.username

\* A step that takes in an administrator's POST /api/products in slot s with the
\* required fields, a stored category and n >= 1 images.
C13_PostStep(s) ==
  LET r2 == creq'[s]
      b == r2.body
  IN
  (/\ r2 # creq[s] /\ r2.route = "POST /api/products"
   /\ Verifies(r2.header) /\ r2.header.token.user.is_admin
   /\ b.name # "" /\ b.model_number # "" /\ b.description # ""
   /\ \E c \in categories : c.id = b.category_id
   /\ r2.upload.image /\ r2.upload.n >= 1) =>
    /\ r2.pc = "done" => r2.status = 201
    /\ r2.status = 201 =>
         \E p \in products' :
           LET rows == {i \in images' : i.product_id = p.id} IN
           /\ p.name = b.name /\ p \notin products
           /\ Cardinality(rows) = r2.upload.n
           /\ \A i \in rows : i.is_primary <=> i.image_url = r2.files[1]

\* C13: an administrator's POST /api/products with valid required fields, an
\* existing category and n images is answered 201, and the created product has
\* exactly n image rows of which the first uploaded one, and only that one, is
\* primary.
C13_CreatedWithImages == [][\A s \in Slots : C13_PostStep(s)]_vars

\* The slug of the request in slot s is stored, and for a PUT it is stored by a
\* category other than the one the request updates.
C14_SlugTaken(r) ==
  \E c \in categories :
    c.slug = r.body.slug /\ (r.route = "PUT /api/categories/:id" => c.id # r.id)

\* A step in which an administrator's POST /api/categories with a name and a
\* slug arrives, or a PUT /api/categories/:id that changes the slug looks the
\* new slug up.
C14_SlugStep(s) ==
  LET r == creq[s]
      r2 == creq'[s]
      arrives == /\ cstarted' = cstarted + 1 /\ r2 # r
                 /\ r2.route = "POST /api/categories" /\ "upload" \in r2.ran
                 /\ r2.upload.image /\ r2.body.name # "" /\ r2.body.slug # ""
      looked == r.route = "PUT /api/categories/:id" /\ r.pc = "check_slug" /\ r2 # r
  IN
  ((arrives \/ looked) /\ C14_SlugTaken(r2)) =>
    /\ r2.pc = "done" /\ r2.status = 400
    /\ r2.msg = "Category with this slug already exists"
    /\ categories' = categories

\* C14: an administrator's POST /api/categories whose slug is the slug of a
\* stored category is answered 400 'Category with this slug already exists' and
\* creates no category row; a PUT /api/categories/:id that changes the slug to
\* one another category holds is answered the same and leaves every category
\* row as it was.
C14_DuplicateSlug == [][\A s \in Slots : C14_SlugStep(s)]_vars

\* Both refusals side by side: a POST under a stored slug and a PUT of category
\* 1 to the slug of category 2.
C14_Witness ==
  \E s, t \in Slots :
    /\ creq[s].route = "POST /api/categories" /\ creq[s].status = 400
    /\ creq[s].msg = "Category with this slug already exists"
    /\ creq[t].route = "PUT /api/categories/:id" /\ creq[t].status = 400
    /\ creq[t].msg = "Category with this slug already exists"
    /\ C14_SlugTaken(creq[s]) /\ C14_SlugTaken(creq[t])
    /\ creq[t].category.slug # creq[t].body.slug

\* The request fails the field validation of its create route.
C15_FailsValidation(r) ==
  \/ r.route = "POST /api/categories" /\ (r.body.name = "" \/ r.body.slug = "")
  \/ r.route = "POST /api/products"
       /\ (r.body.name = "" \/ r.body.model_number = "" \/ r.body.category_id = 0
           \/ r.body.description = "")

\* A step in which an administrator's create request that fails validation
\* arrives in slot s.
C15_CreateStep(s) ==
  LET r2 == creq'[s] IN
  (/\ cstarted' = cstarted + 1 /\ r2 # creq[s]
   /\ Verifies(r2.header) /\ r2.header.token.user.is_admin /\ r2.upload.image
   /\ C15_FailsValidation(r2)) =>
    /\ r2.pc = "done" /\ r2.status = 400 /\ r2.msg = "errors"
    /\ categories' = categories /\ products' = products /\ images' = images
    /\ files' = files

\* C15: a create request that fails field validation is answered 400 with the
\* field errors before anything is persisted: the tables and the stored upload
\* files are what they were before the request.
C15_NothingPersisted == [][\A s \in Slots : C15_CreateStep(s)]_vars

\* The rows of a table other than the row with the given id are the same after
\* the step, and no row is added or removed.
C16_OthersKept(before, after, id) ==
  /\ {x.id : x \in after} = {x.id : x \in before}
  /\ \A x \in before : x.id # id => x \in after

\* A step of a PUT /api/users/:id in slot s.
C16_UserStep(s) ==
  LET r == req[s]
      b == r.body
  IN
  (r.route = "PUT /api/users/:id" /\ req'[s] # r) =>
    /\ r.pc # "update" => users' = users
    /\ C16_OthersKept(users, users', r.id)
    /\ \A u \in users, u2 \in users' :
         u.id = r.id /\ u2.id = r.id =>
           /\ b.username = "" => u2.username = u.username
           /\ b.email = "" => u2.email = u.email
           /\ b.is_admin = <<>> => u2.is_admin = u.is_admin
           /\ b.password = "" => u2.password = u.password

\* A step of a PUT /api/categories/:id in slot s.
C16_CategoryStep(s) ==
  LET r == creq[s]
      b == r.body
  IN
  (r.route = "PUT /api/categories/:id" /\ creq'[s] # r) =>
    /\ r.pc # "update_category" => categories' = categories
    /\ C16_OthersKept(categories, categories', r.id)
    /\ \A c \in categories, c2 \in categories' :
         c.id = r.id /\ c2.id = r.id =>
           /\ b.name = "" => c2.name = c.name
           /\ b.slug = "" => c2.slug = c.slug
           /\ b.description = "" => c2.description = c.description
           /\ r.upload.n = 0 => c2.image_url = c.image_url

\* A step of a PUT /api/products/:id in slot s.
C16_ProductStep(s) ==
  LET r == creq[s]
      b == r.body
  IN
  (r.route = "PUT /api/products/:id" /\ creq'[s] # r) =>
    /\ r.pc # "update_product" => products' = products
    /\ C16_OthersKept(products, products', r.id)
    /\ r.upload.n = 0 => images' = images
    /\ \A p \in products, p2 \in products' :
         p.id = r.id /\ p2.id = r.id =>
           /\ p2.slug = p.slug
           /\ b.name = "" => p2.name = p.name
           /\ b.model_number = "" => p2.model_number = p.model_number
           /\ b.category_id = 0 => p2.category_id = p.category_id

C17_ImagesAfter(pid) == {i \in images' : i.product_id = pid}
C17_Urls(rows) == {i.image_url : i \in rows}

\* A step of a PUT /api/products/:id in slot s that answers it, or that adds its
\* image rows without the flag.
C17_OriginalStep(s) ==
  LET r == creq[s]
      flag == r.body.replace_images = "true"
      put == r.route = "PUT /api/products/:id" /\ creq'[s] # r
  IN
  /\ (put /\ r.pc = "reload" /\ flag) =>
       /\ C17_Urls(C17_ImagesAfter(r.id)) = Range(r.files)
       /\ Cardinality(C17_ImagesAfter(r.id)) = Len(r.files)
  /\ (put /\ r.pc = "bulk_create" /\ ~flag) =>
       /\ ImagesOf(r.id) \subseteq C17_ImagesAfter(r.id)
       /\ C17_Urls(C17_ImagesAfter(r.id) \ ImagesOf(r.id)) = Range(r.files)

\* The original statement of C17: with the replace_images flag the product's
\* images after the request are exactly the newly uploaded ones; without it the
\* prior rows are kept and the new ones appended.
C17_ReplacesOrAppends == [][\A s \in Slots : C17_OriginalStep(s)]_vars

\* A step of a PUT /api/products/:id in slot s that uploaded at least one image.
C17_Step(s) ==
  LET r == creq[s]
      r2 == creq'[s]
      flag == r.body.replace_images = "true"
      put == r.route = "PUT /api/products/:id" /\ r2 # r /\ Len(r.files) >= 1
      added == C17_ImagesAfter(r.id) \ ImagesOf(r.id)
  IN
  /\ (put /\ r.pc = "update_product" /\ r2.pc # "done") =>
       r2.pc = IF flag THEN "find_images" ELSE "bulk_create"
  /\ (put /\ r.pc \notin {"destroy_images", "bulk_create"}) => images' = images
  /\ (put /\ r.pc = "find_images") =>
       /\ flag /\ r2.pc = "destroy_images"
       /\ files' \cap C17_Urls(ImagesOf(r.id)) = {}
  /\ (put /\ r.pc = "destroy_images") =>
       /\ flag /\ r2.pc = "bulk_create"
       /\ C17_ImagesAfter(r.id) = {}
       /\ images \ ImagesOf(r.id) \subseteq images'
  /\ (put /\ r.pc = "bulk_create") =>
       /\ images \subseteq images'
       /\ images' \ images = added
       /\ C17_Urls(added) = Range(r.files) /\ Cardinality(added) = Len(r.files)
       /\ \A i \in added : i.is_primary <=> (flag /\ i.image_url = r.files[1])
  /\ (put /\ r.pc = "reload" /\ flag /\ cstarted = 1) =>
       /\ C17_Urls(ImagesOf(r.id)) = Range(r.files)
       /\ Cardinality(ImagesOf(r.id)) = Len(r.files)
       /\ Placeholder \notin files

\* A step of a PUT /api/products/:id in slot s that carries the flag and no image.
C17_NoUploadStep(s) ==
  (creq[s].route = "PUT /api/products/:id" /\ creq'[s] # creq[s]
   /\ Len(creq[s].files) = 0) =>
    images' = images /\ files' \cap C17_Urls(images) = files \cap C17_Urls(images)

\* C17: a PUT /api/products/:id with the replace_images flag and at least one
\* uploaded image unlinks every prior image file and destroys every prior image
\* row of the product before it adds a new row, so that afterwards, no other
\* request having written the product's images in between, the product's images
\* are exactly the newly uploaded ones; with the flag and no uploaded image
\* nothing is deleted; without the flag the prior rows are all kept and the new
\* ones are appended.
C17_ReplaceThenAdd == [][\A s \in Slots : C17_Step(s) /\ C17_NoUploadStep(s)]_vars

\* The only request so far replaced the seeded image of product 2 with two
\* uploaded images.
C17_Witness ==
  \E s \in Slots :
    /\ cstarted = 1 /\ creq[s].route = "PUT /api/products/:id" /\ creq[s].status = 200
    /\ creq[s].body.replace_images = "true" /\ Len(creq[s].files) = MaxUpload
    /\ C17_Urls(ImagesOf(2)) = Range(creq[s].files)
    /\ Placeholder \notin files

\* A step of a PUT /api/users/:id/change-password in slot s: its arrival with a
\* verified token, valid fields and a stored target, or its update.
C18_Step(s) ==
  LET r == req[s]
      r2 == req'[s]
      caller == r2.header.token.user
      arrives == /\ started' = started + 1 /\ r2 # r
                 /\ r2.route = "PUT /api/users/:id/change-password"
                 /\ Verifies(r2.header) /\ ValidChangePassword(r2.body)
      updates == r.route = "PUT /api/users/:id/change-password" /\ r.pc = "update_pw" /\ r2 # r
  IN
  /\ arrives =>
       \A u \in users : u.id = r2.id =>
         LET allowed == caller.id = u.id \/ caller.is_admin
             verified == u.password = Hash(r2.body.current_password)
         IN
         /\ users' = users
         /\ ~allowed => r2.pc = "done" /\ r2.status = 403
         /\ (allowed /\ ~verified) =>
              /\ r2.pc = "done" /\ r2.status = 400
              /\ r2.msg = "Current password is incorrect"
         /\ (allowed /\ verified) <=> r2.pc = "update_pw"
  /\ updates =>
       /\ r2.status = 200
       /\ C16_OthersKept(users, users', r.id)
       /\ \A u \in users, u2 \in users' :
            u.id = r.id /\ u2.id = r.id =>
              u2 = [u EXCEPT !.password = Hash(r.body.new_password)]

\* C18: PUT /api/users/:id/change-password goes on to change the stored
\* password only when the caller is the target user or an administrator and the
\* current_password verifies against the target's stored password; a caller who
\* is neither is answered 403, a wrong current password 400, the users table
\* unchanged in both cases; the update writes the new password's hash to the
\* target row and nothing else.
C18_ChangePassword == [][\A s \in Slots : C18_Step(s)]_vars

\* A user has changed the own password while the same user's request to change
\* the administrator's password was refused.
C18_Witness ==
  \E s, t \in Slots :
    /\ req[s].route = "PUT /api/users/:id/change-password" /\ req[s].status = 200
    /\ \E u \in users : u.id = req[s].id /\ u.password = Hash(req[s].body.new_password)
    /\ req[t].route = "PUT /api/users/:id/change-password" /\ req[t].status = 403
    /\ req[t].header.token.user.id # req[t].id /\ ~req[t].header.token.user.is_admin

\* A step in which a POST /api/contact with valid fields is made.
C19_PostStep ==
  LET b == contact'.body
      new == messages' \ messages
  IN
  (posted' = posted + 1 /\ ValidContact(b)) =>
    /\ messages \subseteq messages'
    /\ Cardinality(new) = 1
    /\ \A m \in new :
         /\ ~m.is_read
         /\ m.name = b.name /\ m.email = b.email /\ m.phone = b.phone
         /\ m.message = b.message
         /\ \A x \in messages : x.id # m.id
         /\ contact'.msg \notin {m.name, m.email, m.phone, m.message}
    /\ contact'.status = 201
    /\ contact'.out = NoMessage

\* C19: a POST /api/contact with valid fields, whatever its Authorization
\* header, stores exactly one new message, which is unread, and is answered 201
\* with an acknowledgment that carries none of the stored message's fields.
C19_ContactStored == [][C19_PostStep]_vars

\* A visitor without a token has been answered 201 and the table holds two
\* unread messages.
C19_Witness ==
  /\ ~contact.header.present /\ contact.status = 201
  /\ Cardinality(messages) = 2 /\ \A m \in messages : ~m.is_read
  /\ \E m \in messages : m.phone # ""

\* No two users share a username and no two share an email.
C20_Unique ==
  \A u, v \in users : u.id # v.id => (u.username # v.username /\ u.email # v.email)

\* The routes that write a username or an email.
C20_Creates(r) == r.route \in {"POST /api/auth/register", "POST /api/users"}
C20_Updates(r) == r.route = "PUT /api/users/:id"

\* The row the request in slot s is about to insert, or the stored row it is
\* about to change, would share its username or its email with another stored row.
C20_WouldDuplicate(r) ==
  \/ /\ C20_Creates(r) /\ r.pc = "create"
     /\ \E u \in users : u.username = r.body.username \/ u.email = r.body.email
  \/ /\ C20_Updates(r) /\ r.pc = "update"
     /\ \E v \in users : v.id = r.id
     /\ \E u \in users :
          /\ u.id # r.id
          /\ \/ r.body.username \notin {"", r.snap.username} /\ u.username = r.body.username
             \/ r.body.email \notin {"", r.snap.email} /\ u.email = r.body.email

\* The original statement of C20: the users stay unique in username and email,
\* and a request whose write would make a duplicate is answered 400 'Username
\* already exists' or 'Email already exists'.
C20_DuplicateAnswered400 ==
  [][/\ C20_Unique'
     /\ \A s \in Slots :
          (req'[s] # req[s] /\ C20_WouldDuplicate(req[s])) =>
            /\ req'[s].status = 400
            /\ req'[s].msg \in {"Username already exists", "Email already exists"}]_vars

\* A step of a creating or updating request in slot s: a lookup that finds the
\* username or the email stored, or the write.
C20_Step(s) ==
  LET r == req[s]
      r2 == req'[s]
      arrives == /\ started' = started + 1 /\ r2 # r /\ C20_Creates(r2)
                 /\ "handler" \in r2.ran /\ ValidCreate(r2.body)
      nameTaken == \E u \in users : u.username = r2.body.username
      mailTaken == \E u \in users : u.email = r2.body.email
      refused(msg) == r2.pc = "done" /\ r2.status = 400 /\ r2.msg = msg /\ users' = users
  IN
  /\ (arrives /\ nameTaken) => refused("Username already exists")
  /\ (r2 # r /\ r.pc = "chk_username" /\ nameTaken) => refused("Username already exists")
  /\ (r2 # r /\ r.pc \in {"chk_email", "put_chk_email"} /\ mailTaken) =>
       refused("Email already exists")
  /\ (r2 # r /\ C20_WouldDuplicate(r)) =>
       r2.pc = "done" /\ r2.status = 500 /\ users' = users

\* C20: through any interleaving of POST /api/auth/register, POST /api/users and
\* PUT /api/users/:id no two users share a username and no two share an email;
\* a request whose username or email is stored when the handler looks it up is
\* answered 400 'Username already exists' or 'Email already exists', and one
\* whose value is taken only after its lookups is refused at the write, answered
\* 500 with the users table unchanged.
C20_UniqueUsers == []C20_Unique /\ [][\A s \in Slots : C20_Step(s)]_vars

\* Two overlapping registrations of bob: one was stored and the other refused at
\* its write, and a later one was refused at its lookup.
C20_Witness ==
  \E s, t \in Slots :
    /\ C20_Creates(req[s]) /\ req[s].status = 500
    /\ C20_Creates(req[t]) /\ req[t].status = 400 /\ req[t].msg = "Username already exists"
    /\ Cardinality({u \in users : u.username = "bob"}) = 1

\* The create of the request in slot s finds its slug stored: another request
\* created it after this one's lookup.
C22_LostRace(s) ==
  /\ creq[s].route = "POST /api/categories" /\ creq[s].pc = "create_category"
  /\ CategoryBySlug(creq[s].body.slug) # NoCategory

\* The create step of a POST /api/categories in slot s.
C22_CreateStep(s) ==
  LET r == creq[s]
      r2 == creq'[s]
  IN
  (r.route = "POST /api/categories" /\ r.pc = "create_category" /\ r2 # r) =>
    /\ r2.pc = "done"
    /\ IF C22_LostRace(s)
         THEN r2.status = 500 /\ r2.msg = "Server error" /\ categories' = categories
         ELSE /\ r2.status = 201
              /\ \E c \in categories' :
                   /\ c.slug = r.body.slug /\ c.id \notin {d.id : d \in categories}
                   /\ categories' = categories \cup {c}

\* C22: two POST /api/categories requests of an administrator with the same
\* slug can both pass the lookup by slug before either creates; the first create
\* stores the category and is answered 201, the second is refused by the unique
\* slug and answered 500 'Server error', and no two categories share a slug.
C22_BothPassLookup ==
  /\ [](\A c, d \in categories : c.slug = d.slug => c.id = d.id)
  /\ [][\A s \in Slots : C22_CreateStep(s)]_vars

\* Both requests passed the lookup while the slug was free; one was answered
\* 201 and the other 500.
C22_Witness ==
  \E s, t \in Slots :
    /\ creq[s].route = "POST /api/categories" /\ creq[t].route = "POST /api/categories"
    /\ creq[s].body.slug = creq[t].body.slug
    /\ creq[s].status = 201 /\ creq[t].status = 500 /\ creq[t].msg = "Server error"
    /\ Cardinality({c \in categories : c.slug = creq[s].body.slug}) = 1

\* Every product image references a stored product.
C23_ImagesReferenceProducts ==
  \A i \in images : \E p \in products : p.id = i.product_id

\* The steps of a DELETE /api/products/:id in slot s after the product was found.
C23_DeleteStep(s) ==
  LET r == creq[s]
      r2 == creq'[s]
      found == ImagesOf(r.product.id)
  IN
  /\ (r.pc = "delete_find_images" /\ r2 # r) =>
       /\ files' = files \ {i.image_url : i \in found}
       /\ r2.pc = "destroy_product"
       /\ products' = products /\ images' = images
  /\ (r.pc = "destroy_product" /\ r2 # r) =>
       /\ r2.pc = "done" /\ r2.status = 200 /\ r2.msg = "Product deleted successfully"
       /\ products' = {p \in products : p.id # r.product.id}
       /\ images' = {i \in images : i.product_id # r.product.id}
       /\ files' = files

\* C23: DELETE /api/products/:id on a stored product removes the file of each
\* image row it finds for the product when the file exists and skips a missing
\* file without error, then removes the product row and is answered 200;
\* afterwards no image row references the product, and in every state each
\* image row references a stored product.
C23_DeleteProduct ==
  /\ []C23_ImagesReferenceProducts
  /\ [][\A s \in Slots : C23_DeleteStep(s)]_vars

\* Both seeded products, whose images share one file, were deleted: the second
\* delete found the file gone and still succeeded.
C23_Witness ==
  \E s, t \in Slots :
    /\ s # t
    /\ creq[s].route = "DELETE /api/products/:id" /\ creq[s].status = 200
    /\ creq[t].route = "DELETE /api/products/:id" /\ creq[t].status = 200
    /\ creq[s].product.id # creq[t].product.id
    /\ \E i \in creq[s].existing, j \in creq[t].existing : i.image_url = j.image_url
    /\ products = {} /\ images = {}

\* The primary images of product pid among the rows imgs.
C25_Primaries(pid, imgs) == {i \in imgs : i.product_id = pid /\ i.is_primary}

\* The original statement of C25: in every state reached by product create and
\* update requests, overlapping ones included, each product has at most one
\* image with is_primary = true.
C25_AtMostOnePrimary ==
  \A p \in products : Cardinality(C25_Primaries(p.id, images)) <= 1

\* A step of the request in slot s, seen from the primary images of product pid.
C25_Step(s, pid) ==
  LET r == creq[s]
      r2 == creq'[s]
      before == Cardinality(C25_Primaries(pid, images))
      after == Cardinality(C25_Primaries(pid, images'))
      inserts == /\ r2 # r /\ r.route = "PUT /api/products/:id" /\ r.pc = "bulk_create"
                 /\ r.product.id = pid /\ ProductKeyHolds(pid)
  IN
  /\ (inserts /\ r.body.replace_images = "true" /\ ImagesOf(pid) = {}) => after = 1
  /\ (inserts /\ r.body.replace_images # "true") => after = before
  /\ (r2 # r /\ ~(inserts /\ r.body.replace_images = "true")) => after <= before

\* C25: a product's primary images grow in number only when a PUT
\* /api/products/:id with replace_images inserts its upload; when the product
\* has no image row at that insert (no other request wrote the product's images
\* after this request deleted them) the product has exactly one primary image
\* afterwards, and an update without replace_images adds none.  So requests run
\* one after another keep at most one primary image per product.
C25_OnePrimaryWithoutOverlap ==
  [][\A s \in Slots : \A p \in SeedProducts : C25_Step(s, p.id)]_vars

\* A replacing update with two files has finished: two images, one primary.
C25_Witness ==
  \E s \in Slots :
    /\ creq[s].route = "PUT /api/products/:id" /\ creq[s].status = 200
    /\ creq[s].body.replace_images = "true" /\ Len(creq[s].files) = 2
    /\ Cardinality(ImagesOf(creq[s].product.id)) = 2
    /\ Cardinality(C25_Primaries(creq[s].product.id, images)) = 1

\* No product request is in flight.
C26_Quiescent == \A s \in Slots : creq[s].pc \in {"idle", "done"}

C29_StatusOf(m) == IF m.is_read THEN "read" ELSE "unread"

\* C29: the status of every contact message is 'unread' or 'read'; once an
\* administrator's GET /api/contact/messages/:id has been answered with the
\* message, the stored message is 'read'.
C29_ViewedIsRead ==
  /\ \A m \in messages : C29_StatusOf(m) \in {"unread", "read"}
  /\ (mreq.route = "GET /api/contact/messages/:id" /\ mreq.status = 200) =>
       \A m \in messages : m.id = mreq.id => C29_StatusOf(m) = "read"

\* The stored password values.
C30_Passwords == {u.password : u \in users}

\* The user object o of a response, or the claims of a token, has no password
\* attribute and none of its text attributes is a stored password.
C30_Clean(o) ==
  /\ "password" \notin DOMAIN o
  /\ \A a \in DOMAIN o \ {"id", "is_admin"} : o[a] \notin C30_Passwords

\* C30: no response of GET /api/users, GET /api/users/:id, POST /api/users,
\* PUT /api/users/:id, POST /api/auth/login, POST /api/auth/register or
\* GET /api/auth/me contains a stored password value, and neither do the claims
\* of any token.
C30_NoPasswordLeaves ==
  /\ \A s \in Slots :
       /\ C30_Clean(req[s].out)
       /\ \A o \in req[s].rows : C30_Clean(o)
       /\ C30_Clean(req[s].token)
  /\ \A c \in tokens : C30_Clean(c)

\* The list of two users, each stored with a password, was returned to an
\* administrator.
C30_Witness ==
  \E s \in Slots :
    /\ req[s].route = "GET /api/users" /\ req[s].status = 200
    /\ Cardinality(req[s].rows) = 2
    /\ \A o \in req[s].rows : \E u \in users : u.id = o.id /\ u.password # ""

\* The route is registered with the admin middleware.
C27_AdminOnly(r) == InChain(r.route, "admin")

\* The user the request's claims name is stored as an administrator.
C27_StoredAdmin(r) == \E u \in users : u.id = r.user.id /\ u.is_admin

\* The original statement of C27: a request passes the admin gate only when
\* the user of its token is stored with is_admin = true at that moment.
C27_GateFollowsDatastore ==
  [][\A s \in Slots :
       (started' = started + 1 /\ req'[s] # req[s] /\ C27_AdminOnly(req'[s])
        /\ "handler" \in req'[s].ran)
         => C27_StoredAdmin(req'[s])]_vars

\* C27: a request passes the admin gate exactly when its token verifies and the
\* claims signed into the token carry is_admin = true; the gate reads no user
\* row, so a token issued to an administrator passes after the user was deleted
\* or had is_admin set to false.
C27_GateFollowsClaims ==
  \A s \in Slots :
    (C27_AdminOnly(req[s]) /\ req[s].pc # "idle") =>
      ("handler" \in req[s].ran
         <=> /\ HeaderToken(req[s].header).defined
             /\ JwtVerify(HeaderToken(req[s].header).token)
             /\ HeaderToken(req[s].header).token.user.is_admin)

\* A GET /api/users/:id passed the admin gate on the claims of a token and
\* returned the row of the token's own user, stored with is_admin = false.
C27_Witness ==
  \E s \in Slots :
    /\ req[s].route = "GET /api/users/:id" /\ req[s].status = 200
    /\ req[s].user.is_admin
    /\ req[s].out.id = req[s].user.id /\ ~req[s].out.is_admin

C21_Authenticated(h) == HeaderToken(h).defined /\ JwtVerify(HeaderToken(h).token)

\* The header passes the credential check and then the admin check.
C21_Passes(h) == C21_Authenticated(h) /\ HeaderToken(h).token.user.is_admin

\* The rows of every table, the table counters and the stored files.
C21_Store ==
  <<users, nextUserId, categories, products, images, nextCategoryId, nextImageId,
    messages, nextMessageId, files, nextFile>>

\* The steps that ran for the request r on an admin-only route, in order: the
\* admin check only after the credential check passed, upload handling and the
\* controller only after both passed.
C21_InOrder(r) ==
  C27_AdminOnly(r) =>
    /\ "admin" \in r.ran => ("auth" \in r.ran /\ C21_Authenticated(r.header))
    /\ "upload" \in r.ran => ("admin" \in r.ran /\ C21_Passes(r.header))
    /\ "handler" \in r.ran => ("admin" \in r.ran /\ C21_Passes(r.header))
    /\ r.pc \notin {"idle", "done"} => C21_Passes(r.header)

\* The request r2 on an admin-only route, whose header does not pass both
\* checks, is answered 401 or 403 by the check that refused it.
C21_Answered(r2) ==
  /\ r2.pc = "done"
  /\ r2.status = IF C21_Authenticated(r2.header) THEN 403 ELSE 401
  /\ r2.ran = IF C21_Authenticated(r2.header) THEN {"auth", "admin"} ELSE {"auth"}

\* A step of a request on an admin-only route whose header does not pass both
\* checks: it answers the request, changes no row and writes no file, and the
\* request holds nothing read from the datastore.
C21_RefusedStep ==
  /\ \A s \in Slots :
       (req'[s] # req[s] /\ C27_AdminOnly(req'[s]) /\ ~C21_Passes(req'[s].header)) =>
         /\ C21_Answered(req'[s])
         /\ UNCHANGED C21_Store
         /\ req'[s].snap = NoUser /\ req'[s].rows = {}
         /\ req'[s].out = NoClaims /\ req'[s].token = NoClaims
  /\ \A s \in Slots :
       (creq'[s] # creq[s] /\ C27_AdminOnly(creq'[s]) /\ ~C21_Passes(creq'[s].header)) =>
         /\ C21_Answered(creq'[s])
         /\ UNCHANGED C21_Store
         /\ creq'[s].files = <<>> /\ creq'[s].existing = {}
         /\ creq'[s].product = NoProduct /\ creq'[s].category = NoCategory
  /\ (mreq' # mreq /\ C27_AdminOnly(mreq') /\ ~C21_Passes(mreq'.header)) =>
       /\ C21_Answered(mreq')
       /\ UNCHANGED C21_Store
       /\ mreq'.message = NoMessage /\ mreq'.values = <<>>
  /\ (lresp' # lresp /\ C27_AdminOnly(lq) /\ ~C21_Passes(lq.header)) =>
       /\ lresp'.status = IF C21_Authenticated(lq.header) THEN 403 ELSE 401
       /\ UNCHANGED C21_Store
       /\ lresp'.rows = <<>> /\ lresp'.total = 0

\* C21: on every admin-only route the steps run in the order credential check,
\* admin check, upload handling and validation, controller; a request that
\* does not pass the credential check and then the admin check is answered by
\* the check that refused it, and no datastore read or write and no upload
\* file write happens for it.
C21_ChecksComeFirst ==
  /\ [](\A s \in Slots : C21_InOrder(req[s]) /\ C21_InOrder(creq[s]))
  /\ []C21_InOrder(mreq)
  /\ [][C21_RefusedStep]_vars

\* A request with an upload and no token was answered 401 on a catalog route
\* and a request with the token of a user who is no administrator was answered
\* 403 on a user route; no file was written and the tables are as seeded.
C21_Witness ==
  \E s, t \in Slots :
    /\ InChain(creq[s].route, "upload") /\ creq[s].status = 401
    /\ creq[s].upload.n > 0 /\ creq[s].files = <<>>
    /\ C27_AdminOnly(req[t]) /\ req[t].status = 403
    /\ req[t].user = Payload(Bob)
    /\ files = {Placeholder} /\ nextFile = Placeholder + 1
    /\ users = {SeedAdmin, Bob}

\* The rows of every table.
C28_Rows == <<users, categories, products, images, messages>>

\* The request r has been answered 400, 401, 403 or 404.
C28_Refusal(r) == r.pc = "done" /\ r.status \in {400, 401, 403, 404}

\* Where a PUT /api/products/:id stands after its first write.
C28_Writing == {"find_images", "destroy_images", "bulk_create", "reload"}

\* A step of the request r, which becomes r2: a step that answers 400, 401,
\* 403 or 404 changes no row, and a step that changes a row either answers
\* with another status or leaves the request where no later step of it answers
\* one of these.
C28_Step(r, r2) ==
  r2 # r =>
    /\ C28_Refusal(r2) => UNCHANGED C28_Rows
    /\ ~(UNCHANGED C28_Rows) =>
         \/ r2.pc \in C28_Writing
         \/ r2.pc = "done" /\ ~C28_Refusal(r2)
    /\ r.pc \in C28_Writing =>
         \/ r2.pc \in C28_Writing
         \/ r2.pc = "done" /\ ~C28_Refusal(r2)

\* C28: a request answered 400, 401, 403 or 404 leaves every row of users,
\* categories, products, product images and contact messages as it was before
\* the request: the step that answers so changes no row, and no earlier step
\* of the request has changed one.
C28_RefusalChangesNothing ==
  [][/\ \A s \in Slots : C28_Step(req[s], req'[s]) /\ C28_Step(creq[s], creq'[s])
     /\ C28_Step(mreq, mreq')
     /\ (contact' # contact /\ contact'.status \in {400, 401, 403, 404}) =>
          UNCHANGED C28_Rows
     /\ lresp' # lresp => UNCHANGED C28_Rows]_vars

\* DELETE /api/categories/:id was answered 400 for a category that has products
\* and PUT /api/users/:id was answered 404; the tables are as seeded.
C28_Witness ==
  \E s, t \in Slots :
    /\ creq[s].route = "DELETE /api/categories/:id" /\ creq[s].status = 400
    /\ creq[s].n > 0 /\ creq[s].category \in categories
    /\ req[t].route = "PUT /api/users/:id" /\ req[t].status = 404
    /\ users = {SeedAdmin, Bob} /\ categories = SeedCategories
    /\ products = SeedProducts /\ images = SeedImages /\ messages = {}

====
